---------------------------- MODULE Spec2Model ----------------------------
(***************************************************************************)
(* MinhOS Sierra Chart studies: the file-based command/response exchange   *)
(* and the market-data export of the four study variants                   *)
(*   bridge : src/bridge_windows/MinhOSBridgeStudy.cpp                     *)
(*   v3c    : src/windows/acsil_studies/MinhOS_TickDataExporter_v3_COMPLETE*)
(*   v3f    : src/windows/acsil_studies/MinhOS_TickDataExporter_v3_FIXED   *)
(*   v2     : src/windows/acsil_studies/MinhOS_TickDataExporter_v2         *)
(*                                                                         *)
(* One call of a study function by the host is a sequence of steps (pc)    *)
(* so that the order of its file and host operations is observable; the    *)
(* external command writer may act between any two steps.                  *)
(*                                                                         *)
(* Modelling conventions                                                   *)
(*  - prices are integers, in hundredths of a point (10000 is 100.00).     *)
(*  - a command file's text is kept as its token sequence: the fields in   *)
(*    the order they appear, each a key and a quoted or an unquoted value. *)
(*    The substring scans of the parsers are modelled on that sequence.    *)
(*  - GetTickCount values are kept in units of 4 ms, so that the range of  *)
(*    the 32-bit millisecond counter (2^32 ms = 2^30 units) fits the       *)
(*    integers of the model checker; intervals stay in milliseconds.       *)
(*  - log and chart-text output (AddMessageToLog, UseTool) is a one-way    *)
(*    sink and is left out, with the counters that only feed it.           *)
(*  - the command path can be removed and the response path can be opened  *)
(*    for writing whenever the study tries to (no I/O fault on them).      *)
(*  - float arithmetic of the exporters is integer arithmetic on the       *)
(*    hundredths, a division rounding down; the 32-bit volume and trade    *)
(*    counters stay far from their range and are not wrapped.              *)
(*  - the microsecond clock of the exporters is the same clock as          *)
(*    GetTickCount, in the same unit; a timestamp is the time of the call. *)
(*  - MoveFileA fails when the target exists (it never replaces a file).   *)
(*  - a C++ exception leaving the study function ends the run ("crashed"). *)
(***************************************************************************)
EXTENDS Integers, Sequences, FiniteSets, TLC

VARIABLES
    variant,    \* which study is loaded on the chart
    input,      \* the study inputs (sc.Input[...]) as the host holds them
    touched,    \* TRUE once the user changed an input after SetDefaults
    pc,         \* position inside the current call of the study function
    calls,      \* number of calls of the study function so far
    now,        \* GetTickCount() of the current call, in units of MsPerTick
    state,      \* bridge: static StudyState
    sc,         \* the host interface values of the current call
    loc,        \* locals of the current call
    cmdFile,    \* the trade command artifact: NoFile or [gen, content]
    respFile,   \* response artifacts: set of [name, resp], one per file name
    mdFile,     \* market data artifact of the chart symbol
    hist        \* history: what the host and the outside world have seen

vars == <<variant, input, touched, pc, calls, now, state, sc, loc,
          cmdFile, respFile, mdFile, hist>>

---------------------------------------------------------------------------
(* Bounds of the model                                                     *)

MaxCreates == 2      \* times the external writer creates the command file
MaxCalls   == 3      \* calls of the study function

(* Program constants                                                       *)

TRADE_RESPONSES_FILE    == "minhos_trade_responses.json"
MAX_POSITION_SIZE       == 10
MIN_VALID_PRICE         == 1       \* 0.01, prices being in hundredths
MAX_PRICE_CHANGE_PERCENT == 50
DefaultUpdateInterval   == 1000
DefaultTradeCheckInterval == 500
ExporterUpdateInterval  == 100
MsPerTick               == 4          \* time unit of the model, milliseconds
DWORD_TICKS             == 1073741824 \* 2^32 ms, the DWORD range, in that unit

---------------------------------------------------------------------------
(* Command file text as tokens.  A field is "key":value; q says the value  *)
(* is a quoted string (s); otherwise it is unquoted text, d says that text *)
(* starts with an optionally signed decimal number and n is that number    *)
(* (what atoi/atof/stoi/stof read from it), t that other characters follow *)
(* the number (2abc), which these functions do not look at.                *)

StrField(key, str) ==
    [k |-> key, q |-> TRUE,  s |-> str, d |-> FALSE, n |-> 0, t |-> FALSE]
NumField(key, num) ==
    [k |-> key, q |-> FALSE, s |-> "",  d |-> TRUE,  n |-> num, t |-> FALSE]
TailField(key, num) ==
    [k |-> key, q |-> FALSE, s |-> "",  d |-> TRUE,  n |-> num, t |-> TRUE]
BadField(key) ==
    [k |-> key, q |-> FALSE, s |-> "",  d |-> FALSE, n |-> 0, t |-> FALSE]

EmptyText    == [empty |-> TRUE,  fields |-> <<>>]
Json(fs)     == [empty |-> FALSE, fields |-> fs]

NoFile       == [exists |-> FALSE, gen |-> 0, content |-> EmptyText]
File(g, c)   == [exists |-> TRUE,  gen |-> g, content |-> c]

\* std::string::find of the key text: index of the first field with that key
FindKey(fs, key) ==
    IF \E i \in 1..Len(fs) : fs[i].k = key
    THEN CHOOSE i \in 1..Len(fs) :
            fs[i].k = key /\ \A j \in 1..(i-1) : fs[j].k # key
    ELSE 0

---------------------------------------------------------------------------
(* bridge: parseTradeCommand                                               *)

\* find('"', pos+len) .. find('"', start+1): the text between the next two
\* quotes after the key.  For an unquoted value those are the quotes of the
\* next key; with no quote left, start is npos and the field keeps dflt.
BridgeQuoted(fs, key, dflt) ==
    LET i == FindKey(fs, key) IN
    IF i = 0 THEN dflt
    ELSE IF fs[i].q THEN fs[i].s
    ELSE IF i < Len(fs) THEN fs[i+1].k
    ELSE dflt

\* atoi/atof of the text after the key, blanks and colons skipped
BridgeNumber(fs, key) ==
    LET i == FindKey(fs, key) IN
    IF i = 0 THEN 0
    ELSE IF fs[i].q \/ ~fs[i].d THEN 0
    ELSE fs[i].n

BridgeParsedCmd(content) ==
    LET fs == content.fields IN
    [command_id |-> BridgeQuoted(fs, "command_id", ""),
     action     |-> BridgeQuoted(fs, "action", ""),
     symbol     |-> BridgeQuoted(fs, "symbol", ""),
     quantity   |-> BridgeNumber(fs, "quantity"),
     price      |-> BridgeNumber(fs, "price"),
     order_type |-> BridgeQuoted(fs, "order_type", "MARKET")]

parseTradeCommand_NoId(cmd) ==
    cmd.action # "" /\ cmd.quantity > 0

parseTradeCommand(cmd) ==
    cmd.command_id # "" /\ cmd.action # "" /\ cmd.quantity > 0

NullPrice    == [null |-> TRUE, v |-> 0]
Price(p)     == [null |-> FALSE, v |-> p]

createTradeResponse(command_id, status, message, fill_price) ==
    [command_id |-> command_id,
     status     |-> status,
     message    |-> message,
     fill_price |-> IF fill_price > 0 THEN Price(fill_price) ELSE NullPrice]

---------------------------------------------------------------------------
(* Case folding (::toupper, SCString::CompareNoCase) on the strings used   *)

ToUpperCase(str) ==
    CASE str = "nq"     -> "NQ"
      [] str = "es"     -> "ES"
      [] str = "buy"    -> "BUY"
      [] str = "sell"   -> "SELL"
      [] str = "market" -> "MARKET"
      [] str = "limit"  -> "LIMIT"
      [] OTHER          -> str

CompareNoCase_Exact(a, b) == a = b

\* SCString::CompareNoCase(...) == 0
CompareNoCase(a, b) == ToUpperCase(a) = ToUpperCase(b)

---------------------------------------------------------------------------
(* bridge: executeTrade.  s is the host interface of the call, hostResult  *)
(* what BuyEntry/SellEntry returns if it is called.  The result records    *)
(* the return value, the fillPrice out-parameter, whether the host was     *)
(* called and the order handed to it.                                      *)

NoOrder == [side |-> "", OrderType |-> "", OrderQuantity |-> 0, Price1 |-> 0]

BridgeOrderType(cmd) == "MARKET"

BridgeFillPrice_Swapped(s, cmd) ==
    IF cmd.action = "BUY" THEN s.Bid ELSE s.Ask

BridgeFillPrice(s, cmd) ==
    IF cmd.action = "BUY" THEN s.Ask ELSE s.Bid

BridgeTradeGuards_NoAsk(s, cmd) ==
    /\ s.AllowEntryWithWorkingOrders
    /\ s.SendOrdersToTradeService
    /\ (cmd.symbol # "" => CompareNoCase(s.Symbol, cmd.symbol))
    /\ cmd.quantity > 0
    /\ cmd.quantity <= MAX_POSITION_SIZE
    /\ s.Bid > 0

BridgeTradeGuards(s, cmd) ==
    /\ s.AllowEntryWithWorkingOrders
    /\ s.SendOrdersToTradeService
    /\ (cmd.symbol # "" => CompareNoCase(s.Symbol, cmd.symbol))
    /\ cmd.quantity > 0
    /\ cmd.quantity <= MAX_POSITION_SIZE
    /\ s.Ask > 0 /\ s.Bid > 0

executeTrade(s, cmd, hostResult) ==
    IF ~BridgeTradeGuards(s, cmd)
    THEN [result |-> 0, fillPrice |-> 0, called |-> FALSE, order |-> NoOrder]
    ELSE
      LET isLimit == cmd.order_type = "LIMIT" /\ cmd.price > 0
          price1  == IF isLimit THEN cmd.price ELSE 0
          fill0   == IF isLimit THEN cmd.price
                     ELSE IF cmd.action = "BUY" THEN s.Ask ELSE s.Bid
          ord     == [side |-> cmd.action, OrderType |-> BridgeOrderType(cmd),
                      OrderQuantity |-> cmd.quantity, Price1 |-> price1]
      IN IF cmd.action \in {"BUY", "SELL"}
         THEN [result |-> hostResult, fillPrice |-> BridgeFillPrice(s, cmd),
               called |-> TRUE, order |-> ord]
         ELSE [result |-> 0, fillPrice |-> fill0, called |-> FALSE,
               order |-> NoOrder]

\* processTradeCommands, lines 378-418: the response for a read command
BridgeResponse(cmd, ex) ==
    IF parseTradeCommand(cmd)
    THEN IF ex.result > 0
         THEN createTradeResponse(cmd.command_id, "FILLED",
                                  "Trade executed successfully", ex.fillPrice)
         ELSE createTradeResponse(cmd.command_id, "REJECTED",
                                  "Trade execution failed", 0)
    ELSE createTradeResponse("unknown", "REJECTED", "Invalid command format", 0)

BridgeResponses_ParsedOnly(cmd, ex) ==
    IF parseTradeCommand(cmd) THEN << BridgeResponse(cmd, ex) >> ELSE << >>

\* the response writes of one processTradeCommands call, in order: one on
\* the parsed branch (lines 401-406), one on the other (lines 410-416)
BridgeResponses(cmd, ex) == << BridgeResponse(cmd, ex) >>

---------------------------------------------------------------------------
(* bridge: isValidData on the bar values of the call                       *)

Abs(x) == IF x < 0 THEN -x ELSE x

isValidData_Strict(s) ==
    /\ ~(s.Close <= 0 \/ s.Close < MIN_VALID_PRICE)
    /\ ~(s.Volume < 0)
    /\ ~(s.High < s.Low)
    /\ ~(s.Close < s.Low \/ s.Close > s.High)
    /\ (s.PrevClose > 0 =>
          ~(Abs(s.Close - s.PrevClose) * 100
                >= MAX_PRICE_CHANGE_PERCENT * s.PrevClose))

isValidData(s) ==
    /\ ~(s.Close <= 0 \/ s.Close < MIN_VALID_PRICE)
    /\ ~(s.Volume < 0)
    /\ ~(s.High < s.Low)
    /\ ~(s.Close < s.Low \/ s.Close > s.High)
    /\ (s.PrevClose > 0 =>
          ~(Abs(s.Close - s.PrevClose) * 100
                > MAX_PRICE_CHANGE_PERCENT * s.PrevClose))

\* createBridgeMarketDataJSON
createBridgeMarketDataJSON(s) ==
    [symbol |-> s.Symbol, price |-> s.Close, volume |-> s.Volume,
     bid |-> IF s.Bid > 0 /\ s.Ask > 0 THEN s.Bid ELSE s.Close,
     ask |-> IF s.Bid > 0 /\ s.Ask > 0 THEN s.Ask ELSE s.Close]

(* bridge: writeMarketData.  f is the pair of the target file and its .tmp *)
(* sibling; io is what the file system lets happen:                        *)
(*   "direct"      the target opens for writing and is rewritten           *)
(*   "tmp_fail"    neither the target nor the temporary file opens         *)
(*   "tmp_moved"   temporary written, target deleted, rename succeeds      *)
(*   "tmp_kept"    temporary written, target deleted, rename fails         *)
(*   "tmp_locked"  temporary written, target not deletable, rename fails   *)
NoData == [exists |-> FALSE, data |-> <<>>]
Data(j) == [exists |-> TRUE, data |-> <<j>>]

IoOutcomes == {"direct", "tmp_fail", "tmp_moved", "tmp_kept", "tmp_locked"}

writeMarketData(f, json, io) ==
    CASE io = "direct"     -> [ok |-> TRUE,  target |-> Data(json), tmp |-> f.tmp]
      [] io = "tmp_fail"   -> [ok |-> FALSE, target |-> f.target,   tmp |-> f.tmp]
      [] io = "tmp_moved"  -> [ok |-> TRUE,  target |-> Data(json), tmp |-> NoData]
      [] io = "tmp_kept"   -> [ok |-> FALSE, target |-> NoData,     tmp |-> Data(json)]
      [] io = "tmp_locked" -> [ok |-> FALSE, target |-> f.target,   tmp |-> Data(json)]

---------------------------------------------------------------------------
(* v3_COMPLETE and v3_FIXED: strings as character sequences, symbol filter *)

UpperChar(c) ==
    CASE c = "n" -> "N" [] c = "q" -> "Q" [] c = "e" -> "E" [] c = "s" -> "S"
      [] OTHER -> c

ToUpperChars(str) == [i \in 1..Len(str) |-> UpperChar(str[i])]

\* haystack.find(needle) != npos
ContainsSubstring(haystack, needle) ==
    \E i \in 0..(Len(haystack) - Len(needle)) :
        SubSeq(haystack, i + 1, i + Len(needle)) = needle

\* v3_COMPLETE IsSymbolFiltered: TRUE when the symbol is to be processed
V3cIsSymbolFiltered(symbol, filter) ==
    IF Len(filter) = 0 THEN TRUE
    ELSE LET upperSymbol == ToUpperChars(symbol)
             n == IF Len(upperSymbol) < 2 THEN Len(upperSymbol) ELSE 2
             symbolRoot == SubSeq(upperSymbol, 1, n)
         IN ContainsSubstring(ToUpperChars(filter), symbolRoot)

\* upperFilter.find(',', pos), or the length when there is none (0-based)
CommaPos(f, pos) ==
    IF \E i \in (pos + 1)..Len(f) : f[i] = ","
    THEN (CHOOSE i \in (pos + 1)..Len(f) :
             f[i] = "," /\ \A j \in (pos + 1)..(i - 1) : f[j] # ",") - 1
    ELSE Len(f)

\* the filter terms the loop of v3_FIXED IsSymbolFiltered visits from pos on
RECURSIVE FilterTerms(_, _)
FilterTerms(f, pos) ==
    IF pos >= Len(f) THEN {}
    ELSE LET commaPos == CommaPos(f, pos) IN
         {SubSeq(f, pos + 1, commaPos)} \cup FilterTerms(f, commaPos + 1)

\* v3_FIXED IsSymbolFiltered: TRUE when the symbol is to be skipped
V3fIsSymbolFiltered(symbol, filter) ==
    IF Len(filter) = 0 THEN FALSE
    ELSE ~\E term \in FilterTerms(ToUpperChars(filter), 0) :
             ContainsSubstring(ToUpperChars(symbol), term)

---------------------------------------------------------------------------
(* v3: TickTrade, TickBuffer                                               *)

TickBufferSize == 3      \* slots of g_TickBuffer in the model
VwapWindow     == 2      \* ticks GetRecentTicks is asked for in the model
UINT16_RANGE   == 65536  \* uint16_t sequence, sequenceCounter

\* a value-initialised TickTrade (buffer.resize)
NoTick ==
    [timestamp_us |-> 0, price |-> 0, size |-> 0, side |-> "", bid |-> 0,
     ask |-> 0, bid_size |-> 0, ask_size |-> 0, sequence |-> 0, open |-> 0,
     high |-> 0, low |-> 0, total_volume |-> 0, vwap |-> 0, trade_count |-> 0]

TickBufferInit ==
    [buffer |-> [i \in 1..TickBufferSize |-> NoTick], writeIndex |-> 0,
     sequenceCounter |-> 0]

AddTick(tb, tick) ==
    [buffer |-> [tb.buffer EXCEPT ![tb.writeIndex + 1] =
                    [tick EXCEPT !.sequence = tb.sequenceCounter]],
     writeIndex |-> (tb.writeIndex + 1) % TickBufferSize,
     sequenceCounter |-> (tb.sequenceCounter + 1) % UINT16_RANGE]

GetRecentTicks_Unfiltered(tb, count) ==
    LET actualCount == IF count < TickBufferSize THEN count ELSE TickBufferSize
        at(i) == tb.buffer[((tb.writeIndex - actualCount + i + TickBufferSize)
                             % TickBufferSize) + 1]
    IN [i \in 1..actualCount |-> at(i - 1)]

GetRecentTicks(tb, count) ==
    LET actualCount == IF count < TickBufferSize THEN count ELSE TickBufferSize
        at(i) == tb.buffer[((tb.writeIndex - actualCount + i + TickBufferSize)
                             % TickBufferSize) + 1]
        IsWritten(tk) == tk.timestamp_us > 0
    IN SelectSeq([i \in 1..actualCount |-> at(i - 1)], IsWritten)

---------------------------------------------------------------------------
(* v3: ExportTickData and what it calls                                    *)

EstimateVolume_One(s, currentPrice, lastPrice) == 1

\* v3_COMPLETE EstimateVolume
EstimateVolume(s, currentPrice, lastPrice) ==
    IF lastPrice = 0 THEN 1
    ELSE LET priceChange == Abs(currentPrice - lastPrice)
             estimatedVol == (priceChange * 10) \div s.TickSize
         IN IF priceChange = 0 THEN 0
            ELSE IF estimatedVol < 1 THEN 1
            ELSE IF estimatedVol > 1000 THEN 1000
            ELSE estimatedVol

\* the bid/ask/bid_size/ask_size of a tick
TickQuotes_AnyQuote(s, ActualVolume) ==
    IF s.Bid > 0 \/ s.Ask > 0
    THEN [bid |-> s.Bid, ask |-> s.Ask,
          bid_size |-> (ActualVolume * 4) \div 10,
          ask_size |-> (ActualVolume * 6) \div 10]
    ELSE LET range  == (s.High - s.Low) \div 10
             spread == IF range < s.TickSize THEN s.TickSize ELSE range
         IN [bid |-> s.Close - spread, ask |-> s.Close + spread,
             bid_size |-> ActualVolume \div 2,
             ask_size |-> ActualVolume \div 2]

TickQuotes(s, ActualVolume) ==
    IF s.Bid > 0 /\ s.Ask > 0
    THEN [bid |-> s.Bid, ask |-> s.Ask,
          bid_size |-> (ActualVolume * 4) \div 10,
          ask_size |-> (ActualVolume * 6) \div 10]
    ELSE LET range  == (s.High - s.Low) \div 10
             spread == IF range < s.TickSize THEN s.TickSize ELSE range
         IN [bid |-> s.Close - spread, ask |-> s.Close + spread,
             bid_size |-> ActualVolume \div 2,
             ask_size |-> ActualVolume \div 2]

\* v3_COMPLETE DetermineTradeSide.  epsilon is 0.0001, a hundredth of the
\* price unit: between prices in hundredths it changes no comparison.
DetermineTradeSide(price, bid, ask, lastPrice) ==
    IF price >= ask THEN "B"
    ELSE IF price <= bid THEN "S"
    ELSE IF lastPrice > 0
    THEN IF price > lastPrice THEN "B"
         ELSE IF price < lastPrice THEN "S"
         ELSE IF Abs(price - bid) < Abs(price - ask) THEN "S"
         ELSE IF Abs(price - ask) < Abs(price - bid) THEN "B"
         ELSE "U"
    ELSE "U"

\* v3_FIXED DetermineTradeSide; price >= (bid + ask) / 2 is compared on the
\* doubled values, which keeps a midpoint between two hundredths exact
V3fDetermineTradeSide(price, bid, ask, lastPrice) ==
    IF bid > 0 /\ ask > 0
    THEN IF 2 * price >= bid + ask THEN "B" ELSE "S"
    ELSE IF lastPrice > 0 /\ price > lastPrice THEN "B"
    ELSE IF lastPrice > 0 /\ price < lastPrice THEN "S"
    ELSE "U"

RECURSIVE WeightedSum(_)
WeightedSum(ticks) ==
    IF ticks = <<>> THEN 0
    ELSE Head(ticks).price * Head(ticks).size + WeightedSum(Tail(ticks))

RECURSIVE TotalVol(_)
TotalVol(ticks) ==
    IF ticks = <<>> THEN 0 ELSE Head(ticks).size + TotalVol(Tail(ticks))

Vwap_ZeroDefault(tb, CurrentPrice) ==
    LET recentTicks == GetRecentTicks(tb, VwapWindow) IN
    IF recentTicks # <<>> /\ TotalVol(recentTicks) > 0
    THEN WeightedSum(recentTicks) \div TotalVol(recentTicks)
    ELSE 0

Vwap_WithOwn(tb, CurrentPrice) ==
    LET recentTicks == GetRecentTicks(tb, VwapWindow) IN
    (WeightedSum(recentTicks) + CurrentPrice) \div (TotalVol(recentTicks) + 1)

\* the vwap of a new tick, over the ticks already in the buffer
Vwap(tb, CurrentPrice) ==
    LET recentTicks == GetRecentTicks(tb, VwapWindow) IN
    IF recentTicks # <<>> /\ TotalVol(recentTicks) > 0
    THEN WeightedSum(recentTicks) \div TotalVol(recentTicks)
    ELSE CurrentPrice

\* the tick record built when a new trade is detected.  st is the static
\* state with g_CumulativeVolume already updated, ts the timestamp.  The
\* side is the one of v3_COMPLETE; v3_FIXED puts its own in its place.
BuildTick(st, s, ActualVolume, ts) ==
    LET qt == TickQuotes(s, ActualVolume) IN
    [timestamp_us |-> ts, price |-> s.Close, size |-> ActualVolume,
     side |-> DetermineTradeSide(s.Close, qt.bid, qt.ask, st.LastPrice),
     bid |-> qt.bid, ask |-> qt.ask,
     bid_size |-> qt.bid_size, ask_size |-> qt.ask_size,
     sequence |-> 0,
     open |-> s.Open, high |-> s.High, low |-> s.Low,
     total_volume |-> st.CumulativeVolume,
     vwap |-> Vwap(st.TickBuffer, s.Close),
     trade_count |-> st.TotalTrades + 1]

\* static state after a tick went out
AfterTick(st, tick) ==
    [st EXCEPT !.TotalTrades = @ + 1,
               !.TickBuffer = AddTick(@, tick),
               !.LastPrice = tick.price,
               !.LastUpdateTime = tick.timestamp_us]

\* v3_COMPLETE WriteHighFrequencyTick: the temporary file is written and
\* renamed; MoveFileA does not replace an existing target, the temporary
\* file is then deleted
V3cWriteHighFrequencyTick(f, json) ==
    IF f.target.exists THEN f
    ELSE [target |-> Data(json), tmp |-> NoData]

\* v3_FIXED WriteHighFrequencyTick: the tick file is rewritten in place
V3fWriteHighFrequencyTick(f, json) ==
    [target |-> Data(json), tmp |-> f.tmp]

\* the tick as the file shows it: the local record never had its sequence
\* field assigned, junk is what the field happens to hold
TickJson(tick, junk) == [tick EXCEPT !.sequence = junk]

\* v3_COMPLETE ExportTickData
V3cExportTickData(st, f, s, ts, junk) ==
    LET ActualVolume == IF s.Volume > 0 THEN s.Volume
                        ELSE EstimateVolume(s, s.Close, st.LastPrice)
        st1 == [st EXCEPT !.CumulativeVolume = @ + ActualVolume]
        isNewTrade == \/ s.Close # st.LastPrice
                      \/ ActualVolume > 0
                      \/ st.LastPrice = 0
        tick == BuildTick(st1, s, ActualVolume, ts)
    IN IF isNewTrade
       THEN [state |-> AfterTick(st1, tick),
             mdFile |-> V3cWriteHighFrequencyTick(f, TickJson(tick, junk)),
             emitted |-> TRUE]
       ELSE [state |-> st1, mdFile |-> f, emitted |-> FALSE]

\* v3_FIXED ExportTickData
V3fExportTickData(st, f, s, ts, junk) ==
    IF ~(s.Volume > 0)
    THEN [state |-> st, mdFile |-> f, emitted |-> FALSE]
    ELSE
      LET ActualVolume == s.Volume
          st1 == [st EXCEPT !.CumulativeVolume = @ + ActualVolume]
          isNewTrade == ActualVolume > 0
                        /\ (s.Close # st.LastPrice \/ st.LastPrice = 0)
          built == BuildTick(st1, s, ActualVolume, ts)
          tick == [built EXCEPT !.side =
                      V3fDetermineTradeSide(s.Close, built.bid, built.ask,
                                            st.LastPrice)]
      IN IF isNewTrade
         THEN [state |-> AfterTick(st1, tick),
               mdFile |-> V3fWriteHighFrequencyTick(f, TickJson(tick, junk)),
               emitted |-> TRUE]
         ELSE [state |-> st1, mdFile |-> f, emitted |-> FALSE]

---------------------------------------------------------------------------
(* v2: ExportChartData.  s.Depth holds what the market depth interface of  *)
(* the host answers: uses (sc.UsesMarketDepthData), trades (NumberOfTrades *)
(* of the bar), bidVap/askVap (GetVolumeAtPrice one tick below/above).     *)

V2ChartJson(s) ==
    LET dp   == s.Depth
        sz1  == IF dp.uses /\ dp.trades > 0 THEN dp.trades \div 2 ELSE 0
        b1   == IF dp.uses THEN s.Bid ELSE 0
        a1   == IF dp.uses THEN s.Ask ELSE 0
        m2   == sz1 = 0 /\ s.Close > 0
        b2   == IF m2 /\ dp.bidVap > 0 THEN s.Close - s.TickSize ELSE b1
        bs2  == IF m2 /\ dp.bidVap > 0 THEN dp.bidVap ELSE sz1
        a2   == IF m2 /\ dp.askVap > 0 THEN s.Close + s.TickSize ELSE a1
        as2  == IF m2 /\ dp.askVap > 0 THEN dp.askVap ELSE sz1
        m3   == b2 = 0 \/ a2 = 0
        est  == m3 /\ bs2 = 0 /\ as2 = 0 /\ s.Volume > 0
    IN [symbol |-> s.SymbolChars, price |-> s.Close, open |-> s.Open,
        high |-> s.High, low |-> s.Low, volume |-> s.Volume,
        bid |-> IF m3 THEN s.Low ELSE b2,
        ask |-> IF m3 THEN s.High ELSE a2,
        bid_size |-> IF est THEN s.Volume \div 2 ELSE bs2,
        ask_size |-> IF est THEN s.Volume \div 2 ELSE as2,
        last_size |-> IF s.Volume > 0 THEN s.Volume ELSE 0,
        vwap |-> IF s.Volume > 0 THEN (s.High + s.Low + s.Close) \div 3
                 ELSE 0]

\* the temporary file is written, then MoveFileA: it does not replace an
\* existing target, and the temporary file then stays
V2ExportChartData(f, s) ==
    IF f.target.exists
    THEN [target |-> f.target, tmp |-> Data(V2ChartJson(s))]
    ELSE [target |-> Data(V2ChartJson(s)), tmp |-> NoData]

---------------------------------------------------------------------------
(* v3: JSONParser on the token sequence                                    *)

\* find of "key":" : the first field of that key with a quoted value
FindQuoted(fs, key) ==
    IF \E i \in 1..Len(fs) : fs[i].k = key /\ fs[i].q
    THEN CHOOSE i \in 1..Len(fs) :
            /\ fs[i].k = key /\ fs[i].q
            /\ \A j \in 1..(i-1) : ~(fs[j].k = key /\ fs[j].q)
    ELSE 0

ExtractString(fs, key) ==
    LET i == FindQuoted(fs, key) IN IF i = 0 THEN "" ELSE fs[i].s

\* ExtractInt, ExtractFloat: stoi/stof of the text after "key": up to the
\* next , or }; an exception gives 0
ExtractNumber(fs, key) ==
    LET i == FindKey(fs, key) IN
    IF i = 0 THEN 0
    ELSE IF fs[i].q \/ ~fs[i].d THEN 0
    ELSE fs[i].n

V3cParsedCmd(content) ==
    LET fs == content.fields IN
    [order_id  |-> ExtractString(fs, "order_id"),
     symbol    |-> ExtractString(fs, "symbol"),
     side      |-> ExtractString(fs, "side"),
     quantity  |-> ExtractNumber(fs, "quantity"),
     price     |-> ExtractNumber(fs, "price"),
     orderType |-> ExtractString(fs, "type")]

V3cValidCmd(cmd) ==
    cmd.order_id # "" /\ cmd.symbol # "" /\ cmd.side # "" /\ cmd.quantity > 0

V3fParsedCmd(content) ==
    LET fs == content.fields IN
    [symbol    |-> ExtractString(fs, "symbol"),
     side      |-> ExtractString(fs, "side"),
     orderType |-> ExtractString(fs, "order_type"),
     quantity  |-> ExtractNumber(fs, "quantity"),
     price     |-> ExtractNumber(fs, "price")]

V3fValidCmd(cmd) ==
    cmd.symbol # "" /\ cmd.side # "" /\ cmd.quantity > 0

\* WriteTradeResponse of the exporters: file name and content
ResponseName(orderId) == "trade_response_" \o orderId \o ".json"

ExporterResponse(orderId, status, message) ==
    [order_id |-> orderId, status |-> status, message |-> message]

\* v3_COMPLETE and v2 ExecuteTrade: the order type handed to the host
V3cOrderType(orderType) ==
    IF orderType = "MARKET" \/ orderType = "" THEN "MARKET"
    ELSE IF orderType = "LIMIT" THEN "LIMIT"
    ELSE IF orderType = "STOP" THEN "STOP"
    ELSE "LIMIT"

V2OrderType(orderType) ==
    IF orderType = "MARKET" THEN "MARKET" ELSE "LIMIT"

\* v3_COMPLETE ExecuteTrade: sc.BuyOrder / sc.SellOrder
V3cExecuteTrade(cmd, hostResult) ==
    IF cmd.side \in {"BUY", "SELL"}
    THEN [result |-> hostResult, fillPrice |-> 0, called |-> TRUE,
          order |-> [side |-> cmd.side,
                     OrderType |-> V3cOrderType(cmd.orderType),
                     OrderQuantity |-> cmd.quantity, Price1 |-> cmd.price]]
    ELSE [result |-> 0, fillPrice |-> 0, called |-> FALSE, order |-> NoOrder]

\* v3_FIXED ExecuteTrade: validation, sc.SubmitNewOrder and the response it
\* writes; ts is the timestamp the order id is made of
V3fOrderId(ts) == "MINH_" \o ToString(ts)

V3fExecuteTrade(cmd, ts, hostResult) ==
    LET orderId == V3fOrderId(ts)
        isLimit == CompareNoCase(cmd.orderType, "LIMIT")
        side    == IF CompareNoCase(cmd.side, "BUY") THEN "BUY"
                   ELSE IF CompareNoCase(cmd.side, "SELL") THEN "SELL"
                   ELSE ""
        reject(msg) == [result |-> 0, fillPrice |-> 0, called |-> FALSE,
                        order |-> NoOrder,
                        resp |-> ExporterResponse(orderId, "REJECTED", msg)]
    IN IF cmd.quantity <= 0 THEN reject("Invalid quantity")
       ELSE IF cmd.price <= 0 /\ ~CompareNoCase(cmd.orderType, "MARKET")
       THEN reject("Invalid price for limit order")
       ELSE IF side = "" THEN reject("Invalid side (must be BUY or SELL)")
       ELSE [result |-> hostResult, fillPrice |-> 0, called |-> TRUE,
             order |-> [side |-> side,
                        OrderType |-> IF isLimit THEN "LIMIT" ELSE "MARKET",
                        OrderQuantity |-> cmd.quantity,
                        Price1 |-> IF isLimit THEN cmd.price ELSE 0],
             resp |-> IF hostResult > 0
                      THEN ExporterResponse(orderId, "SUBMITTED",
                                            "Order submitted successfully")
                      ELSE ExporterResponse(orderId, "FAILED",
                             "Order submission failed with code: "
                                \o ToString(hostResult))]

---------------------------------------------------------------------------
(* v2: the parsing inside ProcessTradeCommands                             *)

\* the three keys without which the command is left alone
V2HasKeys(fs) ==
    /\ FindQuoted(fs, "order_id") # 0
    /\ FindQuoted(fs, "symbol") # 0
    /\ FindQuoted(fs, "side") # 0

\* std::stoi / std::stof of the text behind the key throw when that text
\* does not start with a number; with the key missing the text is taken
\* from a fixed offset of the file, where the commands of the model have
\* no number
V2NumberThrows(fs, key) ==
    LET i == FindKey(fs, key) IN i = 0 \/ fs[i].q \/ ~fs[i].d

V2Throws(fs) == V2NumberThrows(fs, "quantity") \/ V2NumberThrows(fs, "price")

\* with "type" missing the text between two quotes near the start of the
\* file is taken, which is none of the order type names
V2ParsedCmd(content) ==
    LET fs == content.fields IN
    [order_id  |-> ExtractString(fs, "order_id"),
     symbol    |-> ExtractString(fs, "symbol"),
     side      |-> ExtractString(fs, "side"),
     quantity  |-> ExtractNumber(fs, "quantity"),
     price     |-> ExtractNumber(fs, "price"),
     orderType |-> IF FindQuoted(fs, "type") = 0 THEN "?"
                   ELSE ExtractString(fs, "type")]

\* v2 ExecuteTrade
V2ExecuteTrade(cmd, hostResult) ==
    IF cmd.side \in {"BUY", "SELL"}
    THEN [result |-> hostResult, fillPrice |-> 0, called |-> TRUE,
          order |-> [side |-> cmd.side,
                     OrderType |-> V2OrderType(cmd.orderType),
                     OrderQuantity |-> cmd.quantity, Price1 |-> cmd.price]]
    ELSE [result |-> 0, fillPrice |-> 0, called |-> FALSE, order |-> NoOrder]

---------------------------------------------------------------------------
(* Study inputs and static state                                           *)

Variants == {"bridge", "v3c", "v3f", "v2"}

\* sc.SetDefaults block of each study: the Enable Trading input
DefaultEnableTrading(v) ==
    CASE v = "bridge" -> FALSE
      [] v = "v3c"    -> TRUE
      [] v = "v3f"    -> TRUE
      [] v = "v2"     -> TRUE

\* the update interval (bridge, v2) or update frequency (v3), milliseconds
DefaultUpdateMs(v) ==
    IF v = "bridge" THEN DefaultUpdateInterval ELSE ExporterUpdateInterval

DefaultSymbolFilter ==
    <<"N", "Q", ",", "E", "S", ",", "Y", "M", ",", "R", "T", "Y", ",",
      "V", "I", "X">>

SetDefaultsInputs(v) ==
    [enableTrading      |-> DefaultEnableTrading(v),
     updateInterval     |-> DefaultUpdateMs(v),
     tradeCheckInterval |-> IF v = "bridge" THEN DefaultTradeCheckInterval
                            ELSE 0,
     tickCapture        |-> v \in {"v3c", "v3f"},
     symbolFilter       |-> IF v \in {"v3c", "v3f"} THEN DefaultSymbolFilter
                            ELSE <<>>]

NoInputs == [enableTrading |-> FALSE, updateInterval |-> 0,
             tradeCheckInterval |-> 0, tickCapture |-> FALSE,
             symbolFilter |-> <<>>]

StudyStateInit ==
    [initialized |-> FALSE, lastUpdate |-> 0, lastTradeCheck |-> 0,
     tradingEnabled |-> FALSE, tradesExecuted |-> 0]

\* the globals of v3_COMPLETE, of v3_FIXED, and the static of v2
V3cStateInit ==
    [LastPrice |-> 0, LastUpdateTime |-> 0, TotalTrades |-> 0,
     LastProcessTime |-> 0, CumulativeVolume |-> 0,
     TickBuffer |-> TickBufferInit]

V3fStateInit ==
    [LastPrice |-> 0, LastUpdateTime |-> 0, CumulativeVolume |-> 0,
     TotalTrades |-> 0, TickBuffer |-> TickBufferInit]

V2StateInit == [LastUpdateTime |-> 0]

StateInit(v) ==
    CASE v = "bridge" -> StudyStateInit
      [] v = "v3c"    -> V3cStateInit
      [] v = "v3f"    -> V3fStateInit
      [] v = "v2"     -> V2StateInit

NoDepth == [uses |-> FALSE, trades |-> 0, bidVap |-> 0, askVap |-> 0]

NoCall == [Bid |-> 0, Ask |-> 0, Symbol |-> "", SymbolChars |-> <<>>,
           Depth |-> NoDepth,
           Close |-> 0, PrevClose |-> 0, Open |-> 0,
           Volume |-> 0, High |-> 0, Low |-> 0, TickSize |-> 0, Bar |-> "none",
           AllowEntryWithWorkingOrders |-> FALSE,
           SendOrdersToTradeService |-> FALSE]

NoCmd == [command_id |-> "", action |-> "", symbol |-> "", quantity |-> 0,
          price |-> 0, order_type |-> "MARKET"]

NoExec == [result |-> 0, fillPrice |-> 0, called |-> FALSE, order |-> NoOrder]

NoExport == [ret |-> FALSE, due |-> FALSE, valid |-> FALSE, io |-> "none",
             wrote |-> FALSE]

LocInit ==
    [content |-> EmptyText, gen |-> 0, removed |-> FALSE, cmd |-> NoCmd,
     ex |-> NoExec, written |-> <<>>, polled |-> FALSE, exp |-> NoExport]

HistInit == [created |-> 0, hostCalls |-> 0, respWrites |-> 0]

InitOf(v) ==
    /\ variant = v
    /\ input = NoInputs
    /\ touched = FALSE
    /\ pc = "load"
    /\ calls = 0
    /\ now = 0
    /\ state = StateInit(v)
    /\ sc = NoCall
    /\ loc = LocInit
    /\ cmdFile = NoFile
    /\ respFile = {}
    /\ mdFile = [target |-> NoData, tmp |-> NoData]
    /\ hist = HistInit

\* std::ofstream(name, trunc) << r : the file of that name now holds r
WriteFile(files, nm, r) ==
    {f \in files : f.name # nm} \cup {[name |-> nm, resp |-> r]}

RECURSIVE WriteAll(_, _, _)
WriteAll(files, nm, rs) ==
    IF rs = <<>> THEN files
    ELSE WriteAll(WriteFile(files, nm, Head(rs)), nm, Tail(rs))

RemoveFile_Keeps(f) == f

\* std::remove / DeleteFileA of the command file
RemoveFile(f) == NoFile

ElapsedAtLeast_Wrapless(t, since, ms) ==
    t < since \/ (t - since) >= ((ms + MsPerTick - 1) \div MsPerTick)

\* currentTime - since >= (DWORD)ms, in DWORD arithmetic
ElapsedAtLeast(t, since, ms) ==
    ((t - since) % DWORD_TICKS) >= ((ms + MsPerTick - 1) \div MsPerTick)

---------------------------------------------------------------------------
(* The outside world                                                       *)

\* The host loads the study: the sc.SetDefaults call
SetDefaults ==
    /\ pc = "load"
    /\ input' = SetDefaultsInputs(variant)
    /\ pc' = "idle"
    /\ UNCHANGED <<variant, touched, calls, now, state, sc, loc, cmdFile,
                   respFile, mdFile, hist>>

\* The user switches the Enable Trading input in the study settings
UserSetTrading(b) ==
    /\ pc = "idle"
    /\ input.enableTrading # b
    /\ input' = [input EXCEPT !.enableTrading = b]
    /\ touched' = TRUE
    /\ UNCHANGED <<variant, pc, calls, now, state, sc, loc, cmdFile,
                   respFile, mdFile, hist>>

\* The external writer creates (or replaces) the command artifact, between
\* two calls of the study or in the middle of one
WriterCreate(c) ==
    /\ pc # "load"
    /\ hist.created < MaxCreates
    /\ cmdFile' = File(hist.created + 1, c)
    /\ hist' = [hist EXCEPT !.created = @ + 1]
    /\ UNCHANGED <<variant, input, touched, pc, calls, now, state, sc, loc,
                   respFile, mdFile>>

\* The study function returns to the host
Return ==
    /\ pc' = "idle"
    /\ sc' = NoCall
    /\ loc' = LocInit

---------------------------------------------------------------------------
(* bridge: scsf_MinhOSBridgeStudy, lines 495-561: initialisation, the bar  *)
(* checks and the market data section.  s: host values of this call, dt:   *)
(* time units since the previous call, io: file system outcome of the      *)
(* data write.  loc.exp keeps what the section did, .ret that the function *)
(* returns before the trade section.                                       *)

BridgeTradeGate_Ignores(st, t, in) ==
    ElapsedAtLeast(t, st.lastTradeCheck, in.tradeCheckInterval)

\* line 564: the condition under which processTradeCommands is called
BridgeTradeGate(st, t, in) ==
    st.tradingEnabled
    /\ ElapsedAtLeast(t, st.lastTradeCheck, in.tradeCheckInterval)

BridgeDataSection(in, st, f, s, t, io) ==
    LET st1 == IF st.initialized THEN st
               ELSE [st EXCEPT !.initialized = TRUE,
                               !.tradingEnabled = in.enableTrading]
    IN
    IF s.Bar # "last"
    THEN \* sc.Index < 1, or not the bar of new real-time data: return
         [state |-> st1, mdFile |-> f,
          exp |-> [NoExport EXCEPT !.ret = TRUE]]
    ELSE
      LET st2   == [st1 EXCEPT !.tradingEnabled = in.enableTrading]
          due   == ElapsedAtLeast(t, st2.lastUpdate, in.updateInterval)
          valid == isValidData(s)
          w     == writeMarketData(f, createBridgeMarketDataJSON(s), io)
      IN
      [state  |-> IF due THEN [st2 EXCEPT !.lastUpdate = t] ELSE st2,
       mdFile |-> IF due /\ valid THEN [target |-> w.target, tmp |-> w.tmp]
                  ELSE f,
       exp    |-> [ret |-> due /\ ~valid, due |-> due, valid |-> valid,
                   io |-> io, wrote |-> due /\ valid /\ w.ok]]

\* the call without the history of the run
BridgeStudyCallSteps(s, dt, io) ==
    /\ variant = "bridge"
    /\ pc = "idle"
    /\ calls < MaxCalls
    /\ calls' = calls + 1
    /\ now' = (now + dt) % DWORD_TICKS
    /\ sc' = s
    /\ pc' = "b_data_done"
    /\ LET d == BridgeDataSection(input, state, mdFile, s, now', io) IN
       /\ state' = d.state
       /\ mdFile' = d.mdFile
       /\ loc' = [LocInit EXCEPT !.exp = d.exp]
    /\ UNCHANGED <<variant, input, touched, cmdFile, respFile>>

BridgeStudyCall(s, dt, io) ==
    /\ BridgeStudyCallSteps(s, dt, io)
    /\ UNCHANGED hist

\* lines 563-570: the trade section, or the return before it
BridgeTradeCheckSteps ==
    /\ variant = "bridge"
    /\ pc = "b_data_done"
    /\ IF ~loc.exp.ret /\ BridgeTradeGate(state, now, input)
       THEN /\ state' = [state EXCEPT !.lastTradeCheck = now]
            /\ pc' = "ptc_open"
            /\ UNCHANGED <<sc, loc>>
       ELSE /\ Return
            /\ UNCHANGED state
    /\ UNCHANGED <<variant, input, touched, calls, now, cmdFile, respFile,
                   mdFile>>

BridgeTradeCheck ==
    /\ BridgeTradeCheckSteps
    /\ UNCHANGED hist

(* bridge: processTradeCommands, one step per file or host operation       *)

\* lines 364-371: open and read the command file
PTC_Open ==
    /\ variant = "bridge"
    /\ pc = "ptc_open"
    /\ IF ~cmdFile.exists
       THEN /\ pc' = "ptc_return"       \* return false
            /\ loc' = [loc EXCEPT !.polled = TRUE]
       ELSE /\ pc' = "ptc_read"
            /\ loc' = [loc EXCEPT !.content = cmdFile.content,
                                  !.gen = cmdFile.gen, !.polled = TRUE]
    /\ UNCHANGED sc
    /\ UNCHANGED <<variant, input, touched, calls, now, state, cmdFile,
                   respFile, mdFile, hist>>

\* lines 373-375: remove the command file when the content is not empty
PTC_Remove ==
    /\ variant = "bridge"
    /\ pc = "ptc_read"
    /\ IF loc.content.empty
       THEN /\ pc' = "ptc_return"       \* return true
            /\ UNCHANGED <<cmdFile, loc>>
       ELSE /\ cmdFile' = RemoveFile(cmdFile)
            /\ pc' = "ptc_removed"
            /\ loc' = [loc EXCEPT !.removed = TRUE]
    /\ UNCHANGED <<variant, input, touched, calls, now, state, sc, respFile,
                   mdFile, hist>>

\* lines 378-399: parse, execute (the host call) and build the response
PTC_Execute(hostResult) ==
    /\ variant = "bridge"
    /\ pc = "ptc_removed"
    /\ LET cmd == BridgeParsedCmd(loc.content)
           ex  == IF parseTradeCommand(cmd)
                  THEN executeTrade(sc, cmd, hostResult)
                  ELSE NoExec
       IN
       /\ loc' = [loc EXCEPT !.cmd = cmd, !.ex = ex]
       /\ hist' = [hist EXCEPT !.hostCalls = IF ex.called THEN @ + 1 ELSE @]
    /\ pc' = "ptc_respond"
    /\ UNCHANGED <<variant, input, touched, calls, now, state, sc, cmdFile,
                   respFile, mdFile>>

\* lines 401-418: write the response file
PTC_Respond ==
    /\ variant = "bridge"
    /\ pc = "ptc_respond"
    /\ LET rs == BridgeResponses(loc.cmd, loc.ex) IN
       /\ respFile' = WriteAll(respFile, TRADE_RESPONSES_FILE, rs)
       /\ hist' = [hist EXCEPT !.respWrites = @ + Len(rs)]
       /\ loc' = [loc EXCEPT !.written = rs]
    /\ pc' = "ptc_return"
    /\ UNCHANGED <<variant, input, touched, calls, now, state, sc, cmdFile,
                   mdFile>>

\* what processTradeCommands returns: false when the command file could
\* not be opened (line 365), true on every other path (line 421)
ProcessTradeCommandsResult(l) == l.gen # 0

\* lines 366 and 421: processTradeCommands returns; lines 567-569: the
\* caller counts a true result in state.tradesExecuted
PTC_Return ==
    /\ variant = "bridge"
    /\ pc = "ptc_return"
    /\ Return
    /\ state' = [state EXCEPT !.tradesExecuted =
                    IF ProcessTradeCommandsResult(loc) THEN @ + 1 ELSE @]
    /\ UNCHANGED <<variant, input, touched, calls, now, cmdFile,
                   respFile, mdFile, hist>>

---------------------------------------------------------------------------
(* v3_COMPLETE: scsf_MinhOSTickExporter_v3.  s: host values of the call,   *)
(* dt: time since the previous call, junk: content of the unassigned       *)
(* sequence field of the local tick.                                       *)

ExportDone(ret, emitted) ==
    [ret |-> ret, due |-> ~ret, valid |-> emitted, io |-> "none",
     wrote |-> emitted]

\* lines 308-329: throttle, symbol filter, tick capture
V3cDataSection(in, st, f, s, t, junk) ==
    IF (t - st.LastProcessTime) * MsPerTick < in.updateInterval
    THEN [state |-> st, mdFile |-> f, exp |-> ExportDone(TRUE, FALSE)]
    ELSE
      LET st1 == [st EXCEPT !.LastProcessTime = t] IN
      IF ~V3cIsSymbolFiltered(s.SymbolChars, in.symbolFilter)
      THEN [state |-> st1, mdFile |-> f, exp |-> ExportDone(TRUE, FALSE)]
      ELSE IF ~in.tickCapture
      THEN [state |-> st1, mdFile |-> f, exp |-> ExportDone(FALSE, FALSE)]
      ELSE LET e == V3cExportTickData(st1, f, s, t, junk) IN
           [state |-> e.state, mdFile |-> e.mdFile,
            exp |-> ExportDone(FALSE, e.emitted)]

V3cStudyCall(s, dt, junk) ==
    /\ variant = "v3c"
    /\ pc = "idle"
    /\ calls < MaxCalls
    /\ calls' = calls + 1
    /\ now' = now + dt
    /\ sc' = s
    /\ pc' = "vc_data_done"
    /\ LET d == V3cDataSection(input, state, mdFile, s, now', junk) IN
       /\ state' = d.state
       /\ mdFile' = d.mdFile
       /\ loc' = [LocInit EXCEPT !.exp = d.exp]
    /\ UNCHANGED <<variant, input, touched, cmdFile, respFile, hist>>

\* lines 331-334: the trade section, or the return
V3cTradeGate(in) == in.enableTrading

V3cTradeCheck ==
    /\ variant = "v3c"
    /\ pc = "vc_data_done"
    /\ IF ~loc.exp.ret /\ V3cTradeGate(input)
       THEN pc' = "vc_open" /\ UNCHANGED <<sc, loc>>
       ELSE Return
    /\ UNCHANGED <<variant, input, touched, calls, now, state, cmdFile,
                   respFile, mdFile, hist>>

(* v3_COMPLETE: ProcessTradeCommands                                       *)

\* lines 640-653: FindFirstFileA, open and read the command file
V3c_Open ==
    /\ variant = "v3c"
    /\ pc = "vc_open"
    /\ IF ~cmdFile.exists
       THEN /\ pc' = "v_return"
            /\ loc' = [loc EXCEPT !.polled = TRUE]
       ELSE /\ pc' = "vc_read"
            /\ loc' = [loc EXCEPT !.content = cmdFile.content,
                                  !.gen = cmdFile.gen, !.polled = TRUE]
    /\ UNCHANGED <<variant, input, touched, calls, now, state, sc, cmdFile,
                   respFile, mdFile, hist>>

\* lines 655-665 and 673-676: parse, then ExecuteTrade (the host call), or
\* the response to a command that does not parse
V3c_Execute(hostResult) ==
    /\ variant = "v3c"
    /\ pc = "vc_read"
    /\ LET cmd == V3cParsedCmd(loc.content) IN
       IF V3cValidCmd(cmd)
       THEN LET ex == V3cExecuteTrade(cmd, hostResult) IN
            /\ loc' = [loc EXCEPT !.cmd = cmd, !.ex = ex]
            /\ hist' = [hist EXCEPT !.hostCalls = IF ex.called THEN @ + 1
                                                  ELSE @]
            /\ pc' = "vc_respond"
            /\ UNCHANGED respFile
       ELSE LET r == ExporterResponse("INVALID", "REJECTED",
                       "Invalid trade command format or missing required fields")
            IN
            /\ respFile' = WriteFile(respFile, ResponseName("INVALID"), r)
            /\ hist' = [hist EXCEPT !.respWrites = @ + 1]
            /\ loc' = [loc EXCEPT !.cmd = cmd, !.written = <<r>>]
            /\ pc' = "v_return"
    /\ UNCHANGED <<variant, input, touched, calls, now, state, sc, cmdFile,
                   mdFile>>

\* lines 667-668: the response to an executed command
V3c_Respond ==
    /\ variant = "v3c"
    /\ pc = "vc_respond"
    /\ LET r == ExporterResponse(loc.cmd.order_id, "PROCESSING",
          "Trade command received and processed with microsecond precision")
       IN
       /\ respFile' = WriteFile(respFile, ResponseName(loc.cmd.order_id), r)
       /\ hist' = [hist EXCEPT !.respWrites = @ + 1]
       /\ loc' = [loc EXCEPT !.written = <<r>>]
    /\ pc' = "vc_delete"
    /\ UNCHANGED <<variant, input, touched, calls, now, state, sc, cmdFile,
                   mdFile>>

\* line 671: DeleteFileA of the command file
V3c_Delete ==
    /\ variant = "v3c"
    /\ pc = "vc_delete"
    /\ cmdFile' = RemoveFile(cmdFile)
    /\ loc' = [loc EXCEPT !.removed = TRUE]
    /\ pc' = "v_return"
    /\ UNCHANGED <<variant, input, touched, calls, now, state, sc, respFile,
                   mdFile, hist>>

\* ProcessTradeCommands of an exporter returns, and the study function
V_Return ==
    /\ variant \in {"v3c", "v3f", "v2"}
    /\ pc = "v_return"
    /\ Return
    /\ UNCHANGED <<variant, input, touched, calls, now, state, cmdFile,
                   respFile, mdFile, hist>>

---------------------------------------------------------------------------
(* v3_FIXED: scsf_MinhOSTickExporter_v3                                    *)

\* lines 309-321: symbol filter, tick capture
V3fDataSection(in, st, f, s, t, junk) ==
    IF V3fIsSymbolFiltered(s.SymbolChars, in.symbolFilter)
    THEN [state |-> st, mdFile |-> f, exp |-> ExportDone(TRUE, FALSE)]
    ELSE IF ~in.tickCapture
    THEN [state |-> st, mdFile |-> f, exp |-> ExportDone(FALSE, FALSE)]
    ELSE LET e == V3fExportTickData(st, f, s, t, junk) IN
         [state |-> e.state, mdFile |-> e.mdFile,
          exp |-> ExportDone(FALSE, e.emitted)]

V3fStudyCall(s, dt, junk) ==
    /\ variant = "v3f"
    /\ pc = "idle"
    /\ calls < MaxCalls
    /\ calls' = calls + 1
    /\ now' = now + dt
    /\ sc' = s
    /\ pc' = "vf_data_done"
    /\ LET d == V3fDataSection(input, state, mdFile, s, now', junk) IN
       /\ state' = d.state
       /\ mdFile' = d.mdFile
       /\ loc' = [LocInit EXCEPT !.exp = d.exp]
    /\ UNCHANGED <<variant, input, touched, cmdFile, respFile, hist>>

\* lines 323-326: the trade section, or the return
V3fTradeGate(in) == in.enableTrading

V3fTradeCheck ==
    /\ variant = "v3f"
    /\ pc = "vf_data_done"
    /\ IF ~loc.exp.ret /\ V3fTradeGate(input)
       THEN pc' = "vf_open" /\ UNCHANGED <<sc, loc>>
       ELSE Return
    /\ UNCHANGED <<variant, input, touched, calls, now, state, cmdFile,
                   respFile, mdFile, hist>>

(* v3_FIXED: ProcessTradeCommands                                          *)

\* lines 587-598: open and read the command file; nothing more when it is
\* missing or empty
V3f_Open ==
    /\ variant = "v3f"
    /\ pc = "vf_open"
    /\ IF ~cmdFile.exists
       THEN /\ pc' = "v_return"
            /\ loc' = [loc EXCEPT !.polled = TRUE]
       ELSE /\ pc' = IF cmdFile.content.empty THEN "v_return" ELSE "vf_read"
            /\ loc' = [loc EXCEPT !.content = cmdFile.content,
                                  !.gen = cmdFile.gen, !.polled = TRUE]
    /\ UNCHANGED <<variant, input, touched, calls, now, state, sc, cmdFile,
                   respFile, mdFile, hist>>

\* lines 600-615: parse, then ExecuteTrade with the response it writes; a
\* command that does not parse is left alone
V3f_Execute(hostResult) ==
    /\ variant = "v3f"
    /\ pc = "vf_read"
    /\ LET cmd == V3fParsedCmd(loc.content) IN
       IF V3fValidCmd(cmd)
       THEN LET ex == V3fExecuteTrade(cmd, now, hostResult) IN
            /\ loc' = [loc EXCEPT
                          !.cmd = cmd,
                          !.ex = [result |-> ex.result,
                                  fillPrice |-> ex.fillPrice,
                                  called |-> ex.called, order |-> ex.order],
                          !.written = <<ex.resp>>]
            /\ hist' = [hist EXCEPT
                          !.hostCalls = IF ex.called THEN @ + 1 ELSE @,
                          !.respWrites = @ + 1]
            /\ respFile' = WriteFile(respFile,
                                     ResponseName(ex.resp.order_id), ex.resp)
            /\ pc' = "vf_delete"
       ELSE /\ loc' = [loc EXCEPT !.cmd = cmd]
            /\ pc' = "v_return"
            /\ UNCHANGED <<respFile, hist>>
    /\ UNCHANGED <<variant, input, touched, calls, now, state, sc, cmdFile,
                   mdFile>>

\* line 618: DeleteFileA of the command file
V3f_Delete ==
    /\ variant = "v3f"
    /\ pc = "vf_delete"
    /\ cmdFile' = RemoveFile(cmdFile)
    /\ loc' = [loc EXCEPT !.removed = TRUE]
    /\ pc' = "v_return"
    /\ UNCHANGED <<variant, input, touched, calls, now, state, sc, respFile,
                   mdFile, hist>>

---------------------------------------------------------------------------
(* v2: scsf_MinhOSTickExporter_v2                                          *)

\* lines 86-105: rate limit, ExportChartData
V2DataSection(in, st, f, s, t) ==
    IF ~ElapsedAtLeast(t, st.LastUpdateTime, in.updateInterval)
    THEN [state |-> st, mdFile |-> f, exp |-> ExportDone(TRUE, FALSE)]
    ELSE [state |-> [st EXCEPT !.LastUpdateTime = t],
          mdFile |-> V2ExportChartData(f, s),
          exp |-> ExportDone(FALSE, TRUE)]

V2StudyCall(s, dt) ==
    /\ variant = "v2"
    /\ pc = "idle"
    /\ calls < MaxCalls
    /\ calls' = calls + 1
    /\ now' = (now + dt) % DWORD_TICKS
    /\ sc' = s
    /\ pc' = "v2_data_done"
    /\ LET d == V2DataSection(input, state, mdFile, s, now') IN
       /\ state' = d.state
       /\ mdFile' = d.mdFile
       /\ loc' = [LocInit EXCEPT !.exp = d.exp]
    /\ UNCHANGED <<variant, input, touched, cmdFile, respFile, hist>>

\* lines 107-111: the trade section, or the return
V2TradeGate(in) == in.enableTrading

V2TradeCheck ==
    /\ variant = "v2"
    /\ pc = "v2_data_done"
    /\ IF ~loc.exp.ret /\ V2TradeGate(input)
       THEN pc' = "v2_open" /\ UNCHANGED <<sc, loc>>
       ELSE Return
    /\ UNCHANGED <<variant, input, touched, calls, now, state, cmdFile,
                   respFile, mdFile, hist>>

(* v2: ProcessTradeCommands                                                *)

\* lines 291-309: FindFirstFileA, open and read the command file
V2_Open ==
    /\ variant = "v2"
    /\ pc = "v2_open"
    /\ IF ~cmdFile.exists
       THEN /\ pc' = "v_return"
            /\ loc' = [loc EXCEPT !.polled = TRUE]
       ELSE /\ pc' = "v2_read"
            /\ loc' = [loc EXCEPT !.content = cmdFile.content,
                                  !.gen = cmdFile.gen, !.polled = TRUE]
    /\ UNCHANGED <<variant, input, touched, calls, now, state, sc, cmdFile,
                   respFile, mdFile, hist>>

\* lines 314-356: the key search, the extraction (std::stoi and std::stof
\* are not guarded: an exception leaves the study function) and
\* ExecuteTrade
V2_Execute(hostResult) ==
    /\ variant = "v2"
    /\ pc = "v2_read"
    /\ LET fs == loc.content.fields IN
       IF ~V2HasKeys(fs)
       THEN pc' = "v_return" /\ UNCHANGED <<loc, hist>>
       ELSE IF V2Throws(fs)
       THEN pc' = "crashed" /\ UNCHANGED <<loc, hist>>
       ELSE LET cmd == V2ParsedCmd(loc.content)
                ex  == V2ExecuteTrade(cmd, hostResult)
            IN
            /\ loc' = [loc EXCEPT !.cmd = cmd, !.ex = ex]
            /\ hist' = [hist EXCEPT !.hostCalls = IF ex.called THEN @ + 1
                                                  ELSE @]
            /\ pc' = "v2_respond"
    /\ UNCHANGED <<variant, input, touched, calls, now, state, sc, cmdFile,
                   respFile, mdFile>>

\* line 359: the response
V2_Respond ==
    /\ variant = "v2"
    /\ pc = "v2_respond"
    /\ LET r == ExporterResponse(loc.cmd.order_id, "PROCESSING",
                                 "Trade command received and processing")
       IN
       /\ respFile' = WriteFile(respFile, ResponseName(loc.cmd.order_id), r)
       /\ hist' = [hist EXCEPT !.respWrites = @ + 1]
       /\ loc' = [loc EXCEPT !.written = <<r>>]
    /\ pc' = "v2_delete"
    /\ UNCHANGED <<variant, input, touched, calls, now, state, sc, cmdFile,
                   mdFile>>

\* line 362: DeleteFileA of the command file
V2_Delete ==
    /\ variant = "v2"
    /\ pc = "v2_delete"
    /\ cmdFile' = RemoveFile(cmdFile)
    /\ loc' = [loc EXCEPT !.removed = TRUE]
    /\ pc' = "v_return"
    /\ UNCHANGED <<variant, input, touched, calls, now, state, sc, respFile,
                   mdFile, hist>>

---------------------------------------------------------------------------
(* Input domains of the bridge specification                               *)

ChartSymbol == "NQ"
ChartSymbolChars == <<"N", "Q">>

Bars ==
    { [Close |-> 10000, PrevClose |-> 10000, Open |-> 10000, Volume |-> 5,
       High |-> 10100, Low |-> 9900, Bar |-> "last"],
      [Close |-> 0, PrevClose |-> 10000, Open |-> 0, Volume |-> 0,
       High |-> 0, Low |-> 0, Bar |-> "last"],
      [Close |-> 10000, PrevClose |-> 10000, Open |-> 10000, Volume |-> 5,
       High |-> 10100, Low |-> 9900, Bar |-> "hist"] }

Quotes == { [Bid |-> 10000, Ask |-> 10100], [Bid |-> 10000, Ask |-> 0],
            [Bid |-> 0, Ask |-> 10100] }

TradeFlags == { <<TRUE, TRUE>>, <<FALSE, TRUE>>, <<TRUE, FALSE>> }

HostCall(b, qt, fl) ==
    [Bid |-> qt.Bid, Ask |-> qt.Ask, Symbol |-> ChartSymbol,
     SymbolChars |-> ChartSymbolChars, Depth |-> NoDepth,
     Close |-> b.Close, PrevClose |-> b.PrevClose, Open |-> b.Open,
     Volume |-> b.Volume, High |-> b.High, Low |-> b.Low,
     TickSize |-> 25, Bar |-> b.Bar,
     AllowEntryWithWorkingOrders |-> fl[1],
     SendOrdersToTradeService |-> fl[2]]

BaseQuote == [Bid |-> 10000, Ask |-> 10100]

LastBar == CHOOSE b \in Bars : b.Bar = "last" /\ b.Close > 0

HostCalls ==
    { HostCall(b, BaseQuote, <<TRUE, TRUE>>) : b \in Bars }
    \cup { HostCall(LastBar, qt, <<TRUE, TRUE>>) : qt \in Quotes }
    \cup { HostCall(LastBar, BaseQuote, fl) : fl \in TradeFlags }

HostResults == {-1, 0, 7}

\* the fields of a command, each present or absent (<<>>)
Opt(fset) == { <<f>> : f \in fset } \cup { <<>> }

\* a command with one of its three required fields missing, empty or zero
IdFields  == Opt({StrField("command_id", i) : i \in {"", "c1"}})
ActFields == Opt({StrField("action", x) : x \in {"", "BUY"}})
QtyFields == Opt({NumField("quantity", q) : q \in {0, 2}})

GoodId  == <<StrField("command_id", "c1")>>
GoodAct == <<StrField("action", "BUY")>>
GoodQty == <<NumField("quantity", 2)>>

BridgeCmdTexts ==
    { Json(a \o GoodAct \o GoodQty) : a \in IdFields }
    \cup { Json(GoodId \o x \o GoodQty) : x \in ActFields }
    \cup { Json(GoodId \o GoodAct \o d) : d \in QtyFields }
    \cup
    { Json(<<StrField("command_id", "c1"), StrField("action", x),
             NumField("quantity", q)>>) :
        x \in {"BUY", "SELL", "HOLD"}, q \in {2, 11} }
    \cup
    { Json(<<StrField("command_id", "c1"), StrField("action", x),
             StrField("symbol", sp[1]), NumField("quantity", 2),
             NumField("price", sp[2]), StrField("order_type", "LIMIT")>>) :
        x \in {"BUY", "SELL"},
        sp \in {<<"nq", 10500>>, <<"ES", 10500>>, <<"nq", 0>>} }
    \cup
    { Json(GoodId \o GoodAct \o <<TailField("quantity", 2)>>),
      Json(GoodId \o GoodAct \o <<BadField("quantity")>>),
      Json(GoodId \o GoodAct \o GoodQty \o <<BadField("price")>>) }
    \cup {EmptyText}

\* the texts a writer puts in place while a call of the study is running
LateCmdTexts ==
    { Json(<<StrField("command_id", "c2"), StrField("action", "SELL"),
             NumField("quantity", 2)>>),
      Json(<<StrField("command_id", "c2"), StrField("action", "SELL")>>),
      EmptyText }

BridgeDts == {125}      \* 500 ms between calls

NextBridge ==
    \/ SetDefaults
    \/ \E b \in BOOLEAN : UserSetTrading(b)
    \/ \E c \in BridgeCmdTexts \cup LateCmdTexts :
          (pc = "idle" \/ c \in LateCmdTexts) /\ WriterCreate(c)
    \/ \E s \in HostCalls, dt \in BridgeDts : BridgeStudyCall(s, dt, "direct")
    \/ BridgeTradeCheck
    \/ PTC_Open
    \/ PTC_Remove
    \/ \E r \in HostResults : PTC_Execute(r)
    \/ PTC_Respond
    \/ PTC_Return

InitBridge == InitOf("bridge")

SpecBridge == InitBridge /\ [][NextBridge]_vars

---------------------------------------------------------------------------
(* Input domains of the specification of all four studies                  *)

StudyBars ==
    { [Close |-> 10000, PrevClose |-> 10000, Open |-> 10000, Volume |-> 5,
       High |-> 10100, Low |-> 9900, Bar |-> "last"],
      [Close |-> 10050, PrevClose |-> 10000, Open |-> 10000, Volume |-> 0,
       High |-> 10100, Low |-> 9900, Bar |-> "last"] }

StudyHostCalls ==
    { HostCall(b, BaseQuote, <<TRUE, TRUE>>) : b \in StudyBars }

StudyHostResults == {0, 7}

\* a command in the key names of the bridge and of v3_FIXED, and one in
\* those of v3_COMPLETE and v2
CommandFor(id, side, qty) ==
    Json(<<StrField("command_id", id), StrField("order_id", id),
           StrField("action", side), StrField("side", side),
           StrField("symbol", "NQ"), NumField("quantity", qty),
           NumField("price", 10500), StrField("order_type", "LIMIT"),
           StrField("type", "LIMIT")>>)

StudyCmdTexts ==
    { CommandFor("c1", "BUY", 2), CommandFor("c1", "SELL", 0),
      CommandFor("c2", "HOLD", 2),
      Json(<<StrField("order_id", "c1"), StrField("symbol", "NQ"),
             StrField("side", "BUY")>>),
      Json(<<StrField("command_id", "c1"), StrField("quantity", "2")>>),
      EmptyText }

StudyDts == {125}          \* 500 ms between calls

JunkSequences == {0, 41}

NextStudies ==
    \/ SetDefaults
    \/ \E b \in BOOLEAN : UserSetTrading(b)
    \/ \E c \in StudyCmdTexts :
          (pc = "idle" \/ c \in LateCmdTexts) /\ WriterCreate(c)
    \/ \E s \in StudyHostCalls, dt \in StudyDts :
          BridgeStudyCall(s, dt, "direct")
    \/ BridgeTradeCheck
    \/ PTC_Open
    \/ PTC_Remove
    \/ \E r \in StudyHostResults : PTC_Execute(r)
    \/ PTC_Respond
    \/ PTC_Return
    \/ \E s \in StudyHostCalls, dt \in StudyDts, j \in JunkSequences :
          V3cStudyCall(s, dt, j)
    \/ V3cTradeCheck
    \/ V3c_Open
    \/ \E r \in StudyHostResults : V3c_Execute(r)
    \/ V3c_Respond
    \/ V3c_Delete
    \/ \E s \in StudyHostCalls, dt \in StudyDts, j \in JunkSequences :
          V3fStudyCall(s, dt, j)
    \/ V3fTradeCheck
    \/ V3f_Open
    \/ \E r \in StudyHostResults : V3f_Execute(r)
    \/ V3f_Delete
    \/ \E s \in StudyHostCalls, dt \in StudyDts : V2StudyCall(s, dt)
    \/ V2TradeCheck
    \/ V2_Open
    \/ \E r \in StudyHostResults : V2_Execute(r)
    \/ V2_Respond
    \/ V2_Delete
    \/ V_Return

InitStudies == \E v \in Variants : InitOf(v)

SpecStudies == InitStudies /\ [][NextStudies]_vars

---------------------------------------------------------------------------
(* Properties of the bridge study's command processing                     *)

\* the command file the current poll read is still in place
ReadArtifactExists == cmdFile.exists /\ cmdFile.gen = loc.gen

\* the response the current poll wrote, when it wrote exactly one
TheResponse == loc.written[1]

ResponseOnDisk(r) ==
    [name |-> TRADE_RESPONSES_FILE, resp |-> r] \in respFile

IdMissingOrEmpty(fs) ==
    LET i == FindKey(fs, "command_id") IN i = 0 \/ (fs[i].q /\ fs[i].s = "")

ActionMissingOrEmpty(fs) ==
    LET i == FindKey(fs, "action") IN i = 0 \/ (fs[i].q /\ fs[i].s = "")

QuantityNotPositive(fs) ==
    LET i == FindKey(fs, "quantity") IN
    i = 0 \/ fs[i].q \/ ~fs[i].d \/ fs[i].n <= 0

FailsParsing(fs) ==
    IdMissingOrEmpty(fs) \/ ActionMissingOrEmpty(fs) \/ QuantityNotPositive(fs)

\* C6: a consumed command whose command_id is missing or empty, whose action
\* is missing or empty, or whose quantity is not positive is answered with
\* one response of status REJECTED, and no host order call is made for it.
C6_ParseFailureRejected ==
    (loc.removed /\ FailsParsing(loc.content.fields)) =>
        /\ ~loc.ex.called
        /\ pc = "ptc_return" =>
              Len(loc.written) = 1 /\ TheResponse.status = "REJECTED"

C6_Witness ==
    /\ pc = "ptc_return" /\ loc.removed
    /\ IdMissingOrEmpty(loc.content.fields)
    /\ ~ActionMissingOrEmpty(loc.content.fields)
    /\ ~QuantityNotPositive(loc.content.fields)
    /\ TheResponse.status = "REJECTED" /\ hist.hostCalls = 0

\* the conditions on the host quotes and on the quantity of a command
QuotesAndQuantityOk ==
    sc.Bid > 0 /\ sc.Ask > 0
    /\ 0 < loc.cmd.quantity /\ loc.cmd.quantity <= MAX_POSITION_SIZE

\* C7: executeTrade calls the host (BuyEntry/SellEntry) only when the host
\* Bid and Ask are positive and 0 < quantity <= MAX_POSITION_SIZE; when one
\* of these fails for a parsed command the host is not called and the
\* command is answered as rejected.
C7_HostCallOnlyWithQuotesAndQuantity ==
    /\ loc.ex.called => QuotesAndQuantityOk
    /\ (pc = "ptc_return" /\ parseTradeCommand(loc.cmd) /\ ~QuotesAndQuantityOk)
          => (~loc.ex.called /\ TheResponse.status = "REJECTED")

C7_Witness ==
    /\ pc = "ptc_return" /\ parseTradeCommand(loc.cmd)
    /\ sc.Ask <= 0 /\ sc.Bid > 0 /\ loc.cmd.quantity = 2
    /\ sc.AllowEntryWithWorkingOrders /\ sc.SendOrdersToTradeService
    /\ ~loc.ex.called /\ TheResponse.status = "REJECTED"

\* a market order of the given side was handed to the host and accepted
AcceptedMarket(side) ==
    /\ pc = "ptc_return"
    /\ loc.cmd.action = side /\ loc.cmd.order_type = "MARKET"
    /\ loc.ex.called /\ loc.ex.result > 0

\* C9: a market BUY accepted by the host (positive result) is answered with
\* status FILLED and a fill_price equal to the host Ask of that call, a
\* market SELL with a fill_price equal to the host Bid.
C9_MarketFillsAtAskOrBid ==
    /\ AcceptedMarket("BUY") =>
          (TheResponse.status = "FILLED"
           /\ TheResponse.fill_price = Price(sc.Ask))
    /\ AcceptedMarket("SELL") =>
          (TheResponse.status = "FILLED"
           /\ TheResponse.fill_price = Price(sc.Bid))

C9_Witness ==
    /\ AcceptedMarket("BUY") /\ sc.Bid = 10000 /\ sc.Ask = 10100
    /\ TheResponse.fill_price = Price(10100)
    /\ TheResponse.command_id = loc.cmd.command_id

\* a LIMIT command with a positive price that went through the guards
LimitWithPrice ==
    /\ pc = "ptc_return" /\ parseTradeCommand(loc.cmd)
    /\ loc.cmd.order_type = "LIMIT" /\ loc.cmd.price > 0
    /\ loc.ex.called

\* C10: a command with order_type LIMIT and price > 0 is submitted to the
\* host as a limit order carrying the requested price, and the fill price
\* recorded in the response of an accepted one is that requested price.
C10_LimitCarriesRequestedPrice ==
    LimitWithPrice =>
        /\ loc.ex.order.OrderType = "LIMIT"
        /\ loc.ex.order.Price1 = loc.cmd.price
        /\ loc.ex.result > 0 =>
              TheResponse.fill_price = Price(loc.cmd.price)

---------------------------------------------------------------------------
(* Properties of the trading gate and of the responses, all four studies   *)

\* no part of the command processing has happened in the current call
NoCommandProcessing ==
    /\ ~loc.polled /\ loc.gen = 0 /\ ~loc.removed
    /\ loc.cmd = NoCmd /\ ~loc.ex.called /\ loc.written = <<>>

\* a step without a host order call, without a response write, and without
\* a change of the command artifact other than by the external writer
NoTradeEffect ==
    /\ hist'.hostCalls = hist.hostCalls
    /\ hist'.respWrites = hist.respWrites
    /\ respFile' = respFile
    /\ (cmdFile' = cmdFile \/ hist'.created = hist.created + 1)

\* the data section of the loaded study, run on the given inputs
DataSectionOf(in, st, f, s, t, io, junk) ==
    CASE variant = "bridge" -> BridgeDataSection(in, st, f, s, t, io)
      [] variant = "v3c"    -> V3cDataSection(in, st, f, s, t, junk)
      [] variant = "v3f"    -> V3fDataSection(in, st, f, s, t, junk)
      [] variant = "v2"     -> V2DataSection(in, st, f, s, t)

\* the step is the start of a call whose export is what the same call
\* would export with the Enable Trading input switched on
ExportAsWithTradingOn ==
    (calls' = calls + 1) =>
        \E junk \in JunkSequences :
            LET on == [input EXCEPT !.enableTrading = TRUE]
                d  == DataSectionOf(on, state, mdFile, sc', now',
                                    loc'.exp.io, junk)
            IN mdFile' = d.mdFile /\ loc'.exp = d.exp

\* C4: in every study, while the Enable Trading input is off, a call of the
\* study function does not read or remove the command artifact, makes no
\* host order call and writes no response, and its market-data export is
\* the one the call would make with the input on.
C4_GateOffNoCommandProcessing ==
    /\ [](~input.enableTrading => NoCommandProcessing)
    /\ [][~input.enableTrading => (NoTradeEffect /\ ExportAsWithTradingOn)]_vars

C4_Witness ==
    /\ variant = "v3c" /\ touched /\ ~input.enableTrading
    /\ pc = "vc_data_done" /\ loc.exp.wrote
    /\ cmdFile.exists /\ ~cmdFile.content.empty
    /\ hist.hostCalls = 0 /\ respFile = {}

\* C5: in every study the Enable Trading input is off after SetDefaults, so
\* that as long as the user has not changed it no host order call is made.
C5_DefaultOffNoHostCall ==
    (pc # "load" /\ ~touched) =>
        (~input.enableTrading /\ hist.hostCalls = 0)

\* the identifier the command text carries: the quoted value of command_id
CommandIdOf(fs) ==
    LET i == FindKey(fs, "command_id") IN
    IF i # 0 /\ fs[i].q THEN fs[i].s ELSE ""

ResponseIdOf(r) == IF variant = "bridge" THEN r.command_id ELSE r.order_id

\* C8: in the bridge and in v3_FIXED, every response written for a command
\* whose command_id is present and not empty carries that command_id, also
\* when the command is rejected for another reason.
C8_ResponseCarriesCommandId ==
    (variant \in {"bridge", "v3f"} /\ CommandIdOf(loc.content.fields) # "")
        => \A i \in 1..Len(loc.written) :
              ResponseIdOf(loc.written[i]) = CommandIdOf(loc.content.fields)

---------------------------------------------------------------------------
(* Properties of the outcome reporting and of the validation of a command  *)

\* the failure messages the studies write, ahead of a host result code
FailurePrefixes ==
    {"Order submission failed with code: ", "Trade execution failed: ",
     "Trade execution failed with code: "}

\* the message holds the host's result code as a decimal number
MessageCarriesCode(msg, code) ==
    \E p \in FailurePrefixes : msg = p \o ToString(code)

\* the status of the response as the contract names it
IsFilledOrSubmitted(r) == r.status \in {"FILLED", "SUBMITTED"}
IsFailed(r)            == r.status = "FAILED"

\* C11: in the bridge and in v3_FIXED, a command for which the host was
\* called is answered FILLED or SUBMITTED when the host returned a positive
\* order identifier, and FAILED with the host's result code in the message
\* when the host returned zero or a negative number.
C11_HostResultReported ==
    (variant \in {"bridge", "v3f"} /\ loc.ex.called /\ loc.written # <<>>)
        => IF loc.ex.result > 0
           THEN IsFilledOrSubmitted(loc.written[1])
           ELSE /\ IsFailed(loc.written[1])
                /\ MessageCarriesCode(loc.written[1].message, loc.ex.result)

\* the text of a command asks for a LIMIT order and gives no price above 0
LimitTextWithoutPrice(fs) ==
    LET t == FindKey(fs, "order_type")
        p == FindKey(fs, "price")
    IN /\ t # 0 /\ fs[t].q /\ fs[t].s = "LIMIT"
       /\ (p = 0 \/ (~fs[p].q /\ fs[p].d /\ fs[p].n <= 0))

\* C12: in the bridge and in v3_FIXED, a command of order type LIMIT whose
\* price is absent or not above 0 never reaches the host, and once it is
\* consumed it has been answered with one response of status REJECTED.
C12_LimitWithoutPriceRejected ==
    (variant \in {"bridge", "v3f"} /\ LimitTextWithoutPrice(loc.content.fields))
        => /\ ~loc.ex.called
           /\ (loc.removed /\ pc \in {"ptc_return", "v_return"}) =>
                 (Len(loc.written) = 1 /\ loc.written[1].status = "REJECTED")

\* the command names a symbol, and it is not the chart's whatever the case
SymbolMismatch(cmd) ==
    cmd.symbol # "" /\ ToUpperCase(cmd.symbol) # ToUpperCase(sc.Symbol)

\* every condition of executeTrade other than the one on the symbol
OtherGuardsPass(cmd) ==
    /\ sc.AllowEntryWithWorkingOrders /\ sc.SendOrdersToTradeService
    /\ 0 < cmd.quantity /\ cmd.quantity <= MAX_POSITION_SIZE
    /\ sc.Ask > 0 /\ sc.Bid > 0
    /\ cmd.action \in {"BUY", "SELL"}

\* C13: in executeTrade of the bridge, a parsed command whose symbol is not
\* empty and differs from the chart symbol, case ignored, reaches no host
\* order call and is answered REJECTED; a command whose symbol is empty or
\* is the chart symbol in any case is not held back by the symbol: when all
\* other conditions are met the host is called.
C13_SymbolMustMatchChart ==
    (pc \in {"ptc_respond", "ptc_return"} /\ parseTradeCommand(loc.cmd)) =>
        /\ SymbolMismatch(loc.cmd) =>
              /\ ~loc.ex.called
              /\ pc = "ptc_return" => TheResponse.status = "REJECTED"
        /\ (~SymbolMismatch(loc.cmd) /\ OtherGuardsPass(loc.cmd))
              => loc.ex.called

C13_Witness ==
    /\ pc = "ptc_return" /\ parseTradeCommand(loc.cmd)
    /\ loc.cmd.symbol = "ES" /\ sc.Symbol = "NQ" /\ OtherGuardsPass(loc.cmd)
    /\ ~loc.ex.called /\ TheResponse.status = "REJECTED"
    /\ hist.hostCalls = 0

\* the key under which a study looks for the side of a command
SideKey == IF variant = "bridge" THEN "action" ELSE "side"

\* the text of a command names a side, and it is neither BUY nor SELL
SideIsOther(fs) ==
    LET i == FindKey(fs, SideKey) IN
    i # 0 /\ fs[i].q /\ fs[i].s \notin {"", "BUY", "SELL"}

\* C14: in the bridge and in v3_COMPLETE, a command whose action or side is
\* present but is neither BUY nor SELL reaches no host order call, every
\* response written for it has status REJECTED, and one is written by the
\* time the command processing returns.
C14_OtherSideRejected ==
    (variant \in {"bridge", "v3c"} /\ SideIsOther(loc.content.fields)) =>
        /\ ~loc.ex.called
        /\ \A i \in 1..Len(loc.written) : loc.written[i].status = "REJECTED"
        /\ pc \in {"ptc_return", "v_return"} => Len(loc.written) = 1

\* the text of a command gives the key an unquoted value that is not a
\* number, or a number with other characters behind it
MalformedNumber(fs, key) ==
    LET i == FindKey(fs, key) IN
    i # 0 /\ ~fs[i].q /\ (~fs[i].d \/ fs[i].t)

\* C15: in the bridge, a consumed command whose quantity or price is present
\* but is not a well-formed number reaches no host order call and is
\* answered with one response of status REJECTED.
C15_MalformedNumberRejected ==
    (variant = "bridge" /\ loc.removed
       /\ (\/ MalformedNumber(loc.content.fields, "quantity")
           \/ MalformedNumber(loc.content.fields, "price")))
        => /\ ~loc.ex.called
           /\ pc = "ptc_return" =>
                 (Len(loc.written) = 1 /\ TheResponse.status = "REJECTED")

\* the step puts, under the name of a response artifact that answers one
\* command_id, the response to a command with another command_id
OverwritesAnotherResponse ==
    \E f \in respFile, g \in respFile' :
        /\ g.name = f.name
        /\ f.resp.command_id # "unknown" /\ g.resp.command_id # "unknown"
        /\ g.resp.command_id # f.resp.command_id

\* C16: in the bridge, the responses to two commands that carry different
\* command_ids go to different artifacts: no step replaces the response to
\* one command_id by the response to another.
C16_ResponsesNamedByCommandId ==
    [][variant = "bridge" => ~OverwritesAnotherResponse]_vars

---------------------------------------------------------------------------
(* The file writes as sequences of file operations.  In the actions above  *)
(* a write is one step; here each operation on a file is a step, so that   *)
(* what a reader of the file can find between two operations is a state.   *)
(* A call starts with the data section up to the first file operation of   *)
(* its write (the open, which truncates); the json text that follows is    *)
(* built from the values of the call.                                      *)

\* a file just opened with std::ios::trunc, or created, and not yet written
EmptyFile == [exists |-> TRUE, data |-> <<>>]

\* the response file in that state
EmptyResponse == createTradeResponse("", "", "", 0)

\* the tick ExportTickData handed to AddTick last
LastTick(tb) ==
    tb.buffer[((tb.writeIndex + TickBufferSize - 1) % TickBufferSize) + 1]

(* bridge: the study function with writeMarketData in steps                *)

\* lines 495-543 and 330-334: up to the open of the target, or of the
\* temporary file when the target does not open
WMD_Call(s, dt, io) ==
    /\ variant = "bridge"
    /\ pc = "idle"
    /\ calls < MaxCalls
    /\ calls' = calls + 1
    /\ now' = (now + dt) % DWORD_TICKS
    /\ sc' = s
    /\ LET d == BridgeDataSection(input, state, mdFile, s, now', io)
           writes == d.exp.due /\ d.exp.valid
       IN
       /\ writes \/ io = "direct"
       /\ state' = d.state
       /\ loc' = [LocInit EXCEPT !.exp = d.exp]
       /\ IF ~writes \/ io = "tmp_fail"
          THEN pc' = "b_data_done" /\ UNCHANGED mdFile
          ELSE IF io = "direct"
          THEN /\ pc' = "wmd_write"
               /\ mdFile' = [mdFile EXCEPT !.target = EmptyFile]
          ELSE /\ pc' = "wmd_tmp_write"
               /\ mdFile' = [mdFile EXCEPT !.tmp = EmptyFile]
    /\ UNCHANGED <<variant, input, touched, cmdFile, respFile, hist>>

\* lines 351-354: the text goes into the target
WMD_Write ==
    /\ variant = "bridge"
    /\ pc = "wmd_write"
    /\ mdFile' = [mdFile EXCEPT
                    !.target = Data(createBridgeMarketDataJSON(sc))]
    /\ pc' = "b_data_done"
    /\ UNCHANGED <<variant, input, touched, calls, now, state, sc, loc,
                   cmdFile, respFile, hist>>

\* lines 337-339: the text goes into the temporary file
WMD_TmpWrite ==
    /\ variant = "bridge"
    /\ pc = "wmd_tmp_write"
    /\ mdFile' = [mdFile EXCEPT !.tmp = Data(createBridgeMarketDataJSON(sc))]
    /\ pc' = "wmd_delete"
    /\ UNCHANGED <<variant, input, touched, calls, now, state, sc, loc,
                   cmdFile, respFile, hist>>

\* line 344: DeleteFileA of the target
WMD_Delete ==
    /\ variant = "bridge"
    /\ pc = "wmd_delete"
    /\ mdFile' = IF loc.exp.io = "tmp_locked" THEN mdFile
                 ELSE [mdFile EXCEPT !.target = NoData]
    /\ pc' = "wmd_move"
    /\ UNCHANGED <<variant, input, touched, calls, now, state, sc, loc,
                   cmdFile, respFile, hist>>

\* line 345: MoveFileA of the temporary file to the target
WMD_Move ==
    /\ variant = "bridge"
    /\ pc = "wmd_move"
    /\ mdFile' = IF loc.exp.io = "tmp_moved"
                 THEN [target |-> mdFile.tmp, tmp |-> NoData]
                 ELSE mdFile
    /\ pc' = "b_data_done"
    /\ UNCHANGED <<variant, input, touched, calls, now, state, sc, loc,
                   cmdFile, respFile, hist>>

\* lines 402 and 412: the response file is opened, truncated
PTC_RespondOpen ==
    /\ variant = "bridge"
    /\ pc = "ptc_respond"
    /\ respFile' = WriteFile(respFile, TRADE_RESPONSES_FILE, EmptyResponse)
    /\ pc' = "ptc_resp_write"
    /\ UNCHANGED <<variant, input, touched, calls, now, state, sc, loc,
                   cmdFile, mdFile, hist>>

\* lines 404-405 and 414-415: the response goes into the file
PTC_RespondWrite ==
    /\ variant = "bridge"
    /\ pc = "ptc_resp_write"
    /\ LET rs == BridgeResponses(loc.cmd, loc.ex) IN
       /\ respFile' = WriteAll(respFile, TRADE_RESPONSES_FILE, rs)
       /\ hist' = [hist EXCEPT !.respWrites = @ + Len(rs)]
       /\ loc' = [loc EXCEPT !.written = rs]
    /\ pc' = "ptc_return"
    /\ UNCHANGED <<variant, input, touched, calls, now, state, sc, cmdFile,
                   mdFile>>

(* v3_FIXED: the study function with WriteHighFrequencyTick in steps       *)

\* lines 309-321 and 545: up to the open of the tick file
WHFT_V3fCall(s, dt) ==
    /\ variant = "v3f"
    /\ pc = "idle"
    /\ calls < MaxCalls
    /\ calls' = calls + 1
    /\ now' = now + dt
    /\ sc' = s
    /\ LET d == V3fDataSection(input, state, mdFile, s, now', 0) IN
       /\ state' = d.state
       /\ loc' = [LocInit EXCEPT !.exp = d.exp]
       /\ IF d.exp.wrote
          THEN /\ pc' = "vf_tick_write"
               /\ mdFile' = [mdFile EXCEPT !.target = EmptyFile]
          ELSE pc' = "vf_data_done" /\ UNCHANGED mdFile
    /\ UNCHANGED <<variant, input, touched, cmdFile, respFile, hist>>

\* lines 547-550: the text goes into the tick file
WHFT_V3fWrite(junk) ==
    /\ variant = "v3f"
    /\ pc = "vf_tick_write"
    /\ mdFile' = [mdFile EXCEPT
                    !.target = Data(TickJson(LastTick(state.TickBuffer), junk))]
    /\ pc' = "vf_data_done"
    /\ UNCHANGED <<variant, input, touched, calls, now, state, sc, loc,
                   cmdFile, respFile, hist>>

(* v3_COMPLETE: the study function with WriteHighFrequencyTick in steps    *)

\* lines 308-329 and 594: up to the open of the temporary file
WHFT_V3cCall(s, dt) ==
    /\ variant = "v3c"
    /\ pc = "idle"
    /\ calls < MaxCalls
    /\ calls' = calls + 1
    /\ now' = now + dt
    /\ sc' = s
    /\ LET d == V3cDataSection(input, state, mdFile, s, now', 0) IN
       /\ state' = d.state
       /\ loc' = [LocInit EXCEPT !.exp = d.exp]
       /\ IF d.exp.wrote
          THEN /\ pc' = "vc_tmp_write"
               /\ mdFile' = [mdFile EXCEPT !.tmp = EmptyFile]
          ELSE pc' = "vc_data_done" /\ UNCHANGED mdFile
    /\ UNCHANGED <<variant, input, touched, cmdFile, respFile, hist>>

\* lines 596-599: the text goes into the temporary file
WHFT_V3cTmpWrite(junk) ==
    /\ variant = "v3c"
    /\ pc = "vc_tmp_write"
    /\ mdFile' = [mdFile EXCEPT
                    !.tmp = Data(TickJson(LastTick(state.TickBuffer), junk))]
    /\ pc' = "vc_move"
    /\ UNCHANGED <<variant, input, touched, calls, now, state, sc, loc,
                   cmdFile, respFile, hist>>

\* line 602: MoveFileA; loc.exp.io keeps its outcome
WHFT_V3cMove ==
    /\ variant = "v3c"
    /\ pc = "vc_move"
    /\ IF mdFile.target.exists
       THEN /\ pc' = "vc_cleanup"
            /\ loc' = [loc EXCEPT !.exp.io = "move_failed"]
            /\ UNCHANGED mdFile
       ELSE /\ pc' = "vc_data_done"
            /\ loc' = [loc EXCEPT !.exp.io = "moved"]
            /\ mdFile' = [target |-> mdFile.tmp, tmp |-> NoData]
    /\ UNCHANGED <<variant, input, touched, calls, now, state, sc, cmdFile,
                   respFile, hist>>

\* line 603: DeleteFileA of the temporary file
WHFT_V3cCleanup ==
    /\ variant = "v3c"
    /\ pc = "vc_cleanup"
    /\ mdFile' = [mdFile EXCEPT !.tmp = NoData]
    /\ pc' = "vc_data_done"
    /\ UNCHANGED <<variant, input, touched, calls, now, state, sc, loc,
                   cmdFile, respFile, hist>>

(* v2: the study function with the write of ExportChartData in steps       *)

\* lines 86-105 and 272: up to the open of the temporary file
ECD_Call(s, dt) ==
    /\ variant = "v2"
    /\ pc = "idle"
    /\ calls < MaxCalls
    /\ calls' = calls + 1
    /\ now' = (now + dt) % DWORD_TICKS
    /\ sc' = s
    /\ LET d == V2DataSection(input, state, mdFile, s, now') IN
       /\ state' = d.state
       /\ loc' = [LocInit EXCEPT !.exp = d.exp]
       /\ IF d.exp.wrote
          THEN /\ pc' = "v2_tmp_write"
               /\ mdFile' = [mdFile EXCEPT !.tmp = EmptyFile]
          ELSE pc' = "v2_data_done" /\ UNCHANGED mdFile
    /\ UNCHANGED <<variant, input, touched, cmdFile, respFile, hist>>

\* lines 275-277: the text goes into the temporary file
ECD_TmpWrite ==
    /\ variant = "v2"
    /\ pc = "v2_tmp_write"
    /\ mdFile' = [mdFile EXCEPT !.tmp = Data(V2ChartJson(sc))]
    /\ pc' = "v2_move"
    /\ UNCHANGED <<variant, input, touched, calls, now, state, sc, loc,
                   cmdFile, respFile, hist>>

\* line 280: MoveFileA, its result not looked at; loc.exp.io keeps it
ECD_Move ==
    /\ variant = "v2"
    /\ pc = "v2_move"
    /\ IF mdFile.target.exists
       THEN /\ loc' = [loc EXCEPT !.exp.io = "move_failed"]
            /\ UNCHANGED mdFile
       ELSE /\ loc' = [loc EXCEPT !.exp.io = "moved"]
            /\ mdFile' = [target |-> mdFile.tmp, tmp |-> NoData]
    /\ pc' = "v2_data_done"
    /\ UNCHANGED <<variant, input, touched, calls, now, state, sc, cmdFile,
                   respFile, hist>>

(* Input domains of the specification of the file writes                   *)

WriteCmdTexts == { CommandFor("c1", "BUY", 2) }

NextWrites ==
    \/ SetDefaults
    \/ \E b \in BOOLEAN : UserSetTrading(b)
    \/ \E c \in WriteCmdTexts : pc = "idle" /\ WriterCreate(c)
    \/ \E s \in StudyHostCalls, dt \in StudyDts, io \in IoOutcomes :
          WMD_Call(s, dt, io)
    \/ WMD_Write
    \/ WMD_TmpWrite
    \/ WMD_Delete
    \/ WMD_Move
    \/ BridgeTradeCheck
    \/ PTC_Open
    \/ PTC_Remove
    \/ \E r \in StudyHostResults : PTC_Execute(r)
    \/ PTC_RespondOpen
    \/ PTC_RespondWrite
    \/ PTC_Return
    \/ \E s \in StudyHostCalls, dt \in StudyDts : WHFT_V3cCall(s, dt)
    \/ \E j \in JunkSequences : WHFT_V3cTmpWrite(j)
    \/ WHFT_V3cMove
    \/ WHFT_V3cCleanup
    \/ V3cTradeCheck
    \/ V3c_Open
    \/ \E r \in StudyHostResults : V3c_Execute(r)
    \/ V3c_Respond
    \/ V3c_Delete
    \/ \E s \in StudyHostCalls, dt \in StudyDts : WHFT_V3fCall(s, dt)
    \/ \E j \in JunkSequences : WHFT_V3fWrite(j)
    \/ V3fTradeCheck
    \/ V3f_Open
    \/ \E r \in StudyHostResults : V3f_Execute(r)
    \/ V3f_Delete
    \/ \E s \in StudyHostCalls, dt \in StudyDts : ECD_Call(s, dt)
    \/ ECD_TmpWrite
    \/ ECD_Move
    \/ V2TradeCheck
    \/ V2_Open
    \/ \E r \in StudyHostResults : V2_Execute(r)
    \/ V2_Respond
    \/ V2_Delete
    \/ V_Return

InitWrites == \E v \in Variants : InitOf(v)

SpecWrites == InitWrites /\ [][NextWrites]_vars

---------------------------------------------------------------------------
(* Properties of the file writes                                           *)

\* a reader opening the artifact now finds a file without its text
SnapshotIncomplete == mdFile.target.exists /\ mdFile.target.data = <<>>
ResponseIncomplete == \E f \in respFile : f.resp = EmptyResponse

\* the step changes the snapshot artifact by renaming a written temporary
\* file onto it
AtomicReplace ==
    /\ mdFile.tmp.exists /\ mdFile.tmp.data # <<>>
    /\ mdFile'.target = mdFile.tmp
    /\ ~mdFile'.tmp.exists

\* C17: with a reader able to look between any two file operations of a
\* study, the snapshot artifact and the response artifacts are never found
\* empty or half written at their own paths, and the snapshot artifact
\* changes only by the rename of a completely written temporary file.
C17_WritesAtomicForReaders ==
    /\ [](~SnapshotIncomplete /\ ~ResponseIncomplete)
    /\ [][mdFile'.target # mdFile.target => AtomicReplace]_vars

\* the write of the current call went through a temporary file, and the
\* rename of that file onto the target failed
RenameFailed ==
    \/ /\ variant = "bridge" /\ loc.exp.due /\ loc.exp.valid
       /\ loc.exp.io \in {"tmp_kept", "tmp_locked"}
    \/ variant \in {"v3c", "v2"} /\ loc.exp.io = "move_failed"

\* the data section of the current call is over
DataSectionDone == pc \in {"b_data_done", "vc_data_done", "v2_data_done"}

\* C18: when the rename of a snapshot write has failed (WriteHighFrequencyTick
\* of v3_COMPLETE, ExportChartData of v2, the temporary-file path of the
\* bridge's writeMarketData), then after the write the target still is a
\* complete snapshot and the temporary file is gone.
C18_FailedRenameKeepsSnapshot ==
    (DataSectionDone /\ RenameFailed) =>
        /\ mdFile.target.exists /\ mdFile.target.data # <<>>
        /\ ~mdFile.tmp.exists

---------------------------------------------------------------------------
(* Properties of the fault containment and of the tick buffer              *)

\* C19: whatever the command artifact holds (keys missing, values that are
\* not numbers), no call of a study function is ended by a C++ exception
\* that leaves the study function.
C19_NoUncaughtException == pc # "crashed"

---------------------------------------------------------------------------
(* The TickBuffer class on its own: any sequence of AddTick calls, and     *)
(* GetRecentTicks asked for any number of ticks.  The class is the same in *)
(* v3_COMPLETE and v3_FIXED.  A tick carries the time of its capture, which *)
(* is above 0 and grows; hist.pushed keeps the ticks handed to AddTick,    *)
(* each with the sequence number AddTick gave it (of a buffer that starts  *)
(* aged, the ticks still in it), loc the last answer of GetRecentTicks.    *)

MaxPushes == 5      \* AddTick calls
MaxAsk    == 4      \* largest count GetRecentTicks is asked for

TickPrices == {10000, 10050}

TBTick(ts, price) ==
    [NoTick EXCEPT !.timestamp_us = ts, !.price = price, !.size = 1]

\* sizes of the ticks pushed.  A tick of size 0 is one v3_COMPLETE emits
\* for a changed price when the host volume is above 0 and below 1:
\* (uint32_t)Volume is then 0 and the estimate is not asked for.
TickSizes == {0, 1}

TBLocInit ==
    [asked |-> 0, recentTicks |-> <<>>, done |-> FALSE,
     price |-> 0, vwap |-> 0, vwapDone |-> FALSE]

TBHistInit ==
    [created |-> 0, hostCalls |-> 0, respWrites |-> 0, pushed |-> <<>>]

\* A buffer that has been in use for a trading session: the state the
\* constructor and k >= TickBufferSize calls of AddTick leave, the p-th
\* call (from 0) having stored a tick captured at time p + 1 in slot
\* p % maxSize with sequence number p.
AgedPushes == UINT16_RANGE - 2

AgedTick(p) ==
    [TBTick(p + 1, 10000) EXCEPT !.sequence = p % UINT16_RANGE]

AgedTickBuffer(k) ==
    [buffer |-> [i \in 1..TickBufferSize |->
                    AgedTick(CHOOSE p \in (k - TickBufferSize)..(k - 1) :
                                p % TickBufferSize = i - 1)],
     writeIndex |-> k % TickBufferSize,
     sequenceCounter |-> k % UINT16_RANGE]

\* the last TickBufferSize ticks of those k calls, the oldest first
AgedPushed(k) ==
    [i \in 1..TickBufferSize |-> AgedTick(k - TickBufferSize + i - 1)]

InitTickBuffer ==
    /\ variant \in {"v3c", "v3f"}
    /\ input = NoInputs
    /\ touched = FALSE
    /\ pc = "load"
    /\ calls = 0
    /\ sc = NoCall
    /\ loc = TBLocInit
    /\ cmdFile = NoFile
    /\ respFile = {}
    /\ mdFile = [target |-> NoData, tmp |-> NoData]
    /\ \E k \in {0, AgedPushes} :
         /\ now = k
         /\ state = [StateInit(variant) EXCEPT !.TickBuffer =
                        IF k = 0 THEN TickBufferInit ELSE AgedTickBuffer(k)]
         /\ hist = [TBHistInit EXCEPT !.pushed =
                        IF k = 0 THEN <<>> ELSE AgedPushed(k)]

\* g_TickBuffer.AddTick(tick) with a tick captured now
TB_AddTick(price, size) ==
    /\ calls < MaxPushes
    /\ calls' = calls + 1
    /\ now' = now + 1
    /\ LET tick == [TBTick(now', price) EXCEPT !.size = size] IN
       /\ state' = [state EXCEPT !.TickBuffer = AddTick(@, tick)]
       /\ hist' = [hist EXCEPT !.pushed =
                     Append(@, [tick EXCEPT !.sequence =
                                   state.TickBuffer.sequenceCounter])]
    /\ loc' = TBLocInit
    /\ UNCHANGED <<variant, input, touched, pc, sc, cmdFile, respFile,
                   mdFile>>

\* recentTicks = g_TickBuffer.GetRecentTicks(count)
TB_GetRecentTicks(count) ==
    /\ loc' = [TBLocInit EXCEPT
                  !.asked = count,
                  !.recentTicks = GetRecentTicks(state.TickBuffer, count),
                  !.done = TRUE]
    /\ UNCHANGED <<variant, input, touched, pc, calls, now, state, sc,
                   cmdFile, respFile, mdFile, hist>>

\* the vwap ExportTickData computes for a tick at that price, from the
\* ticks in the buffer
TB_Vwap(price) ==
    /\ loc' = [TBLocInit EXCEPT !.price = price,
                                !.vwap = Vwap(state.TickBuffer, price),
                                !.vwapDone = TRUE]
    /\ UNCHANGED <<variant, input, touched, pc, calls, now, state, sc,
                   cmdFile, respFile, mdFile, hist>>

NextTickBuffer ==
    \/ \E p \in TickPrices, z \in TickSizes : TB_AddTick(p, z)
    \/ \E n \in 0..MaxAsk : TB_GetRecentTicks(n)
    \/ \E p \in TickPrices : TB_Vwap(p)

SpecTickBuffer == InitTickBuffer /\ [][NextTickBuffer]_vars

\* the smallest of three numbers
Min3(a, b, c) ==
    IF a <= b /\ a <= c THEN a ELSE IF b <= c THEN b ELSE c

\* the last n ticks handed to AddTick, as many as there are and as fit the
\* buffer, the oldest first
LastPushed(n) ==
    LET m == Min3(n, TickBufferSize, Len(hist.pushed)) IN
    SubSeq(hist.pushed, Len(hist.pushed) - m + 1, Len(hist.pushed))

\* C20: after any sequence of AddTick calls on a buffer of TickBufferSize
\* slots, GetRecentTicks(n) returns the last min(n, TickBufferSize, number
\* of ticks pushed) ticks pushed, the oldest first, and nothing else: no
\* slot that no push has written.
C20_RecentTicksAreLastPushed ==
    loc.done => loc.recentTicks = LastPushed(loc.asked)

\* more ticks pushed than the buffer holds, and more asked for
C20_Witness ==
    /\ loc.done
    /\ Len(hist.pushed) > TickBufferSize /\ loc.asked > TickBufferSize
    /\ Len(loc.recentTicks) = TickBufferSize
    /\ loc.recentTicks[1].sequence = Len(hist.pushed) - TickBufferSize
    /\ loc.recentTicks[1].price # loc.recentTicks[2].price

---------------------------------------------------------------------------
(* C21: the sequence numbers AddTick assigns                               *)

\* the sequence numbers of a list of ticks grow strictly
StrictlyIncreasingSequence(ticks) ==
    \A i \in 2..Len(ticks) : ticks[i].sequence > ticks[i - 1].sequence

\* the sequence numbers of a list of ticks never drop
NonDecreasingSequence(ticks) ==
    \A i \in 2..Len(ticks) : ticks[i].sequence >= ticks[i - 1].sequence

\* C21: for any number of AddTick calls on one TickBuffer, every push gets
\* a sequence number strictly greater than the one of the push before it,
\* and the ticks GetRecentTicks returns are in non-decreasing sequence
\* order.
C21_SequenceStrictlyIncreasing ==
    /\ StrictlyIncreasingSequence(hist.pushed)
    /\ loc.done => NonDecreasingSequence(loc.recentTicks)

---------------------------------------------------------------------------
(* The tick export of v3_COMPLETE and v3_FIXED over a wider range of host  *)
(* values: repeated and changed prices, with and without host volume,      *)
(* snapshots a validation would turn down, quotes present, absent,         *)
(* one-sided and crossed, bars whose range is below and above ten tick     *)
(* sizes.  No command file is written, the poll of each call finds none.   *)

\* a bar whose range is more than ten tick sizes
WideBar ==
    [Close |-> 10050, PrevClose |-> 10000, Open |-> 10000, Volume |-> 3,
     High |-> 10300, Low |-> 9900, Bar |-> "last"]

TickBars ==
    { [Close |-> 10000, PrevClose |-> 10000, Open |-> 10000, Volume |-> 5,
       High |-> 10100, Low |-> 9900, Bar |-> "last"],
      [Close |-> 10000, PrevClose |-> 10000, Open |-> 10000, Volume |-> 0,
       High |-> 10100, Low |-> 9900, Bar |-> "last"],
      [Close |-> 10050, PrevClose |-> 10000, Open |-> 10000, Volume |-> 0,
       High |-> 10100, Low |-> 9900, Bar |-> "last"],
      [Close |-> 10050, PrevClose |-> 10000, Open |-> 10000, Volume |-> 3,
       High |-> 10100, Low |-> 9900, Bar |-> "last"],
      [Close |-> 0, PrevClose |-> 10000, Open |-> 0, Volume |-> 5,
       High |-> 0, Low |-> 0, Bar |-> "last"],
      [Close |-> 10000, PrevClose |-> 10000, Open |-> 10000, Volume |-> 5,
       High |-> 9900, Low |-> 10100, Bar |-> "last"],
      [Close |-> 10200, PrevClose |-> 10000, Open |-> 10000, Volume |-> 5,
       High |-> 10100, Low |-> 9900, Bar |-> "last"],
      WideBar }

NoQuote == [Bid |-> 0, Ask |-> 0]

\* a quote with the bid alone, and one with the bid above the ask
BidOnlyQuote == [Bid |-> 10000, Ask |-> 0]
CrossedQuote == [Bid |-> 10100, Ask |-> 10000]

TickHostCalls ==
    { HostCall(b, BaseQuote, <<TRUE, TRUE>>) : b \in TickBars }
    \cup { HostCall(b, NoQuote, <<TRUE, TRUE>>) :
             b \in {x \in TickBars : x.Close = 10050} }
    \cup { HostCall(WideBar, BidOnlyQuote, <<TRUE, TRUE>>) }
    \cup { HostCall(b, CrossedQuote, <<TRUE, TRUE>>) :
             b \in {x \in TickBars : x.Close = 10050 /\ x.Volume = 3
                                      /\ x # WideBar} }

TickJunk == {41}

NextTicks ==
    \/ SetDefaults
    \/ \E s \in TickHostCalls, dt \in StudyDts, j \in TickJunk :
          V3cStudyCall(s, dt, j)
    \/ V3cTradeCheck
    \/ V3c_Open
    \/ \E s \in TickHostCalls, dt \in StudyDts, j \in TickJunk :
          V3fStudyCall(s, dt, j)
    \/ V3fTradeCheck
    \/ V3f_Open
    \/ V_Return

InitTicks == \E v \in {"v3c", "v3f"} : InitOf(v)

SpecTicks == InitTicks /\ [][NextTicks]_vars

\* this step is a call of the study function that reaches ExportTickData
ExportCalled ==
    /\ pc = "idle" /\ pc' \in {"vc_data_done", "vf_data_done"}
    /\ ~loc'.exp.ret /\ input.tickCapture

\* ExportTickData of this step built a tick, pushed it to the buffer and
\* handed it to WriteHighFrequencyTick
TickEmitted ==
    /\ ExportCalled /\ loc'.exp.wrote
    /\ state'.TickBuffer.sequenceCounter
         = state.TickBuffer.sequenceCounter + 1

\* ExportTickData of this step emitted no tick
TickSkipped ==
    /\ ExportCalled /\ ~loc'.exp.wrote
    /\ state'.TickBuffer.sequenceCounter = state.TickBuffer.sequenceCounter

\* g_CumulativeVolume, g_LastPrice, g_TotalTrades and g_TickBuffer are as
\* they were before the step
TickStateKept ==
    /\ state'.CumulativeVolume = state.CumulativeVolume
    /\ state'.LastPrice = state.LastPrice
    /\ state'.TotalTrades = state.TotalTrades
    /\ state'.TickBuffer = state.TickBuffer

---------------------------------------------------------------------------
(* C22: a call that emits no tick                                          *)

\* C22: in v3_COMPLETE and v3_FIXED, a call of ExportTickData that emits
\* no tick leaves g_CumulativeVolume, g_LastPrice, g_TotalTrades and the
\* TickBuffer (contents, write index, sequence counter) unchanged.
C22_SkipLeavesStateUnchanged ==
    [][TickSkipped => TickStateKept]_vars

---------------------------------------------------------------------------
(* C23: when v3_COMPLETE emits a tick                                      *)

\* the volume of the tick of this step: the host volume, or the estimate
\* when the host reports none
TickVolume ==
    IF sc'.Volume > 0 THEN sc'.Volume
    ELSE EstimateVolume(sc', sc'.Close, state.LastPrice)

\* the price of the call is the one of the last tick, which was not 0, and
\* the host reports volume 0
RepeatedPriceNoVolume ==
    sc'.Close = state.LastPrice /\ state.LastPrice # 0 /\ sc'.Volume = 0

---------------------------------------------------------------------------
(* C24: the total_volume of the emitted ticks                              *)

\* the ticks emitted so far, the oldest first: as long as no more ticks
\* were pushed than the buffer has slots, they are its first slots
EmittedTicks ==
    SubSeq(state.TickBuffer.buffer, 1, state.TickBuffer.sequenceCounter)

\* C24: in v3_COMPLETE and v3_FIXED the total_volume of every emitted tick
\* is the sum of the sizes of the ticks emitted so far: its own size for
\* the first tick, the total_volume of the tick before plus its own size
\* for every later one.
C24_TotalVolumeIsSumOfSizes ==
    state.TickBuffer.sequenceCounter <= TickBufferSize =>
        \A i \in 1..Len(EmittedTicks) :
            EmittedTicks[i].total_volume
                = TotalVol(SubSeq(EmittedTicks, 1, i))

---------------------------------------------------------------------------
(* C25: snapshots a validation would turn down                             *)

\* the snapshot of the call is invalid: price <= 0, high < low, or price
\* outside [low, high]
InvalidSnapshot(s) ==
    \/ s.Close <= 0
    \/ s.High < s.Low
    \/ s.Close < s.Low \/ s.Close > s.High

\* C25: in v3_COMPLETE and v3_FIXED, ExportTickData emits no tick and
\* changes no state (last price, cumulative volume, trade count, buffer)
\* for an invalid snapshot.
C25_InvalidSnapshotNoTick ==
    [][ExportCalled /\ InvalidSnapshot(sc') =>
          TickSkipped /\ TickStateKept]_vars

---------------------------------------------------------------------------
(* The market data section of the bridge study over a wider range of bars: *)
(* price moves of exactly and of more than 50% against the previous close, *)
(* bars that fail each of the other checks of isValidData, a first bar     *)
(* without previous close; calls before and after the update is due, and   *)
(* every outcome of the data write.  Trading stays off, as by default.     *)

DataBars ==
    { [Close |-> 10000, PrevClose |-> 10000, Open |-> 10000, Volume |-> 5,
       High |-> 10100, Low |-> 9900, Bar |-> "last"],
      [Close |-> 15000, PrevClose |-> 10000, Open |-> 10000, Volume |-> 5,
       High |-> 15100, Low |-> 9900, Bar |-> "last"],
      [Close |-> 15001, PrevClose |-> 10000, Open |-> 10000, Volume |-> 5,
       High |-> 15100, Low |-> 9900, Bar |-> "last"],
      [Close |-> 5000, PrevClose |-> 10000, Open |-> 10000, Volume |-> 5,
       High |-> 10100, Low |-> 4900, Bar |-> "last"],
      [Close |-> 4999, PrevClose |-> 10000, Open |-> 10000, Volume |-> 5,
       High |-> 10100, Low |-> 4900, Bar |-> "last"],
      [Close |-> 30000, PrevClose |-> 0, Open |-> 30000, Volume |-> 0,
       High |-> 30100, Low |-> 29900, Bar |-> "last"],
      [Close |-> 0, PrevClose |-> 10000, Open |-> 0, Volume |-> 5,
       High |-> 0, Low |-> 0, Bar |-> "last"],
      [Close |-> 10000, PrevClose |-> 10000, Open |-> 10000, Volume |-> -1,
       High |-> 10100, Low |-> 9900, Bar |-> "last"],
      [Close |-> 10000, PrevClose |-> 10000, Open |-> 10000, Volume |-> 5,
       High |-> 9900, Low |-> 10100, Bar |-> "last"],
      [Close |-> 10200, PrevClose |-> 10000, Open |-> 10000, Volume |-> 5,
       High |-> 10100, Low |-> 9900, Bar |-> "last"] }

DataHostCalls == { HostCall(b, BaseQuote, <<TRUE, TRUE>>) : b \in DataBars }

DataDts == {125, 250}      \* 500 ms and 1000 ms between calls

NextBridgeData ==
    \/ SetDefaults
    \/ \E s \in DataHostCalls, dt \in DataDts, io \in IoOutcomes :
          BridgeStudyCall(s, dt, io)
    \/ BridgeTradeCheck

SpecBridgeData == InitBridge /\ [][NextBridgeData]_vars

\* this step is a call of the bridge study function on the bar of new
\* real-time data
BridgeCycle ==
    variant = "bridge" /\ pc = "idle" /\ pc' = "b_data_done"
    /\ sc'.Bar = "last"

\* the price moved by more, and by exactly, MAX_PRICE_CHANGE_PERCENT against
\* a previous close that is > 0
MovedMoreThanLimit(s) ==
    s.PrevClose > 0
    /\ Abs(s.Close - s.PrevClose) * 100 > MAX_PRICE_CHANGE_PERCENT * s.PrevClose

MovedExactlyLimit(s) ==
    s.PrevClose > 0
    /\ Abs(s.Close - s.PrevClose) * 100 = MAX_PRICE_CHANGE_PERCENT * s.PrevClose

\* the snapshot fails one of the checks the claim lists
FailsValidation(s) ==
    \/ s.Close < MIN_VALID_PRICE
    \/ s.Volume < 0
    \/ s.High < s.Low
    \/ s.Close < s.Low \/ s.Close > s.High
    \/ MovedMoreThanLimit(s)

\* C26: in the bridge study, a cycle whose snapshot fails isValidData
\* (price < 0.01, volume < 0, high < low, price outside [low, high], or a
\* move of more than 50% against a previous close > 0) does not write or
\* change the market data artifact; a snapshot that moved by exactly 50%
\* and passes the other checks is accepted: when the update is due it is
\* handed to the writer, and written whenever the file system lets it.
C26_InvalidSnapshotNotWritten ==
    [][BridgeCycle =>
         /\ FailsValidation(sc') => mdFile' = mdFile /\ ~loc'.exp.wrote
         /\ (MovedExactlyLimit(sc') /\ ~FailsValidation(sc') /\ loc'.exp.due)
               => /\ loc'.exp.valid
                  /\ loc'.exp.io \in {"direct", "tmp_moved"} =>
                        mdFile'.target
                          = Data(createBridgeMarketDataJSON(sc'))]_vars

\* a due cycle with a failing snapshot has left in place the artifact that
\* an earlier cycle wrote for a snapshot that had moved by exactly 50%
C26_Witness ==
    /\ variant = "bridge" /\ pc = "b_data_done"
    /\ loc.exp.due /\ FailsValidation(sc) /\ MovedMoreThanLimit(sc)
    /\ mdFile.target.exists
    /\ mdFile.target.data[1].price = 15000

---------------------------------------------------------------------------
(* DetermineTradeSide on its own: the function of v3_COMPLETE and the one  *)
(* of v3_FIXED, applied to a price, a bid, an ask and a last price drawn   *)
(* from a grid that has the price at, between and outside the quotes, the  *)
(* quotes present, absent, locked and crossed, and the last price absent,  *)
(* below, at and above the price.  sc holds the price and the quotes,      *)
(* state.LastPrice the last price, loc the answer.                         *)

SidePrices     == {9950, 10000, 10050, 10100, 10150}
SideQuotes     == {0, 10000, 10100}
SideLastPrices == {0, 9950, 10050, 10150}

SideLocInit == [side |-> "", done |-> FALSE]

InitSide ==
    /\ variant \in {"v3c", "v3f"}
    /\ input = NoInputs
    /\ touched = FALSE
    /\ pc = "load"
    /\ calls = 0
    /\ now = 0
    /\ \E l \in SideLastPrices :
         state = [StateInit(variant) EXCEPT !.LastPrice = l]
    /\ \E p \in SidePrices, b \in SideQuotes, a \in SideQuotes :
         sc = [NoCall EXCEPT !.Close = p, !.Bid = b, !.Ask = a]
    /\ loc = SideLocInit
    /\ cmdFile = NoFile
    /\ respFile = {}
    /\ mdFile = [target |-> NoData, tmp |-> NoData]
    /\ hist = HistInit

\* tick.side = DetermineTradeSide(CurrentPrice, BidPrice, AskPrice, g_LastPrice)
Side_Determine ==
    /\ ~loc.done
    /\ loc' = [side |-> IF variant = "v3c"
                        THEN DetermineTradeSide(sc.Close, sc.Bid, sc.Ask,
                                                state.LastPrice)
                        ELSE V3fDetermineTradeSide(sc.Close, sc.Bid, sc.Ask,
                                                   state.LastPrice),
               done |-> TRUE]
    /\ UNCHANGED <<variant, input, touched, pc, calls, now, state, sc,
                   cmdFile, respFile, mdFile, hist>>

NextSide == Side_Determine

SpecSide == InitSide /\ [][NextSide]_vars

---------------------------------------------------------------------------
(* C27: v3_FIXED's DetermineTradeSide against the specified classifier     *)

\* the specified classifier: with both quotes known, at or above the ask is
\* a buy, at or below the bid a sell, in between the midpoint decides, the
\* midpoint itself a buy; without them the last price decides, when known
SpecifiedSide(price, bid, ask, last_price) ==
    IF bid > 0 /\ ask > 0
    THEN IF price >= ask THEN "B"
         ELSE IF price <= bid THEN "S"
         ELSE IF 2 * price >= bid + ask THEN "B" ELSE "S"
    ELSE IF last_price > 0
    THEN IF price > last_price THEN "B"
         ELSE IF price < last_price THEN "S"
         ELSE "U"
    ELSE "U"

\* C27: v3_FIXED's DetermineTradeSide gives, on every input, the side the
\* specified classifier gives.
C27_V3fAgreesWithClassifier ==
    (variant = "v3f" /\ loc.done) =>
        loc.side = SpecifiedSide(sc.Close, sc.Bid, sc.Ask, state.LastPrice)

---------------------------------------------------------------------------
(* C28: the boundary cases of v3_COMPLETE's DetermineTradeSide             *)

\* the side the boundary properties ask for, "" where they ask for none
BoundarySide(price, bid, ask, last_price) ==
    IF bid = 0 /\ ask = 0
    THEN IF price > last_price THEN "B"
         ELSE IF price < last_price THEN "S" ELSE ""
    ELSE IF bid > 0 /\ ask > 0 /\ bid < ask
    THEN IF price = ask THEN "B"
         ELSE IF price = bid THEN "S"
         ELSE IF 2 * price = bid + ask THEN "B" ELSE ""
    ELSE ""

\* C28: for every last price, 0 included, v3_COMPLETE's DetermineTradeSide
\* gives Buy for a price at the ask, Sell for a price at the bid, Buy for a
\* price exactly at the midpoint of bid and ask, and, with bid = ask = 0,
\* Buy for a price above the last price and Sell for a price below it.
C28_V3cBoundaryCases ==
    (variant = "v3c" /\ loc.done) =>
        LET want == BoundarySide(sc.Close, sc.Bid, sc.Ask, state.LastPrice)
        IN want # "" => loc.side = want

---------------------------------------------------------------------------
(* C29: what a poll of v3_COMPLETE or v3_FIXED does with the command file  *)

\* ProcessTradeCommands of this call is at its end, and it had found a
\* command file that was not empty
PollOfCommandDone ==
    /\ variant \in {"v3c", "v3f"} /\ pc = "v_return"
    /\ loc.gen > 0 /\ ~loc.content.empty

\* C29: in v3_COMPLETE and v3_FIXED every non-empty command artifact a
\* poll finds is consumed in that poll, valid or not: it has been removed
\* and answered with exactly one response when the poll ends, so that no
\* later poll finds it again.
C29_EveryCommandConsumed ==
    PollOfCommandDone =>
        /\ loc.removed /\ ~ReadArtifactExists
        /\ Len(loc.written) = 1

---------------------------------------------------------------------------
(* C30: the snapshot artifact of v3_COMPLETE after a tick                  *)

\* two tick records carry the same data, the sequence field apart (the
\* file takes it from the local record, which never had it assigned)
SameTickData(a, b) == [a EXCEPT !.sequence = 0] = [b EXCEPT !.sequence = 0]

\* ExportTickData of this call of v3_COMPLETE has emitted a tick, and
\* WriteHighFrequencyTick has returned
V3cTickWritten ==
    variant = "v3c" /\ pc = "vc_data_done" /\ ~loc.exp.ret /\ loc.exp.wrote

\* C30: in v3_COMPLETE, once ExportTickData has emitted a tick and its
\* temporary file has been written, the snapshot artifact of the symbol
\* holds the data of that tick, also when a snapshot file of an earlier
\* tick was already there.
C30_SnapshotHoldsLatestTick ==
    V3cTickWritten =>
        /\ mdFile.target.exists
        /\ mdFile.target.data # <<>>
        /\ SameTickData(mdFile.target.data[1], LastTick(state.TickBuffer))

---------------------------------------------------------------------------
(* C31: the sequence number in the snapshot artifact                       *)

\* a call of a v3 exporter has emitted a tick, and the snapshot artifact
\* shows that tick
SnapshotShowsEmittedTick ==
    /\ variant \in {"v3c", "v3f"}
    /\ pc \in {"vc_data_done", "vf_data_done"}
    /\ ~loc.exp.ret /\ loc.exp.wrote
    /\ mdFile.target.exists /\ mdFile.target.data # <<>>
    /\ SameTickData(mdFile.target.data[1], LastTick(state.TickBuffer))

\* C31: in v3_COMPLETE and v3_FIXED the sequence value the snapshot
\* artifact shows for an emitted tick is the sequence number AddTick gave
\* that tick when it was pushed.
C31_SnapshotSequenceIsAssigned ==
    SnapshotShowsEmittedTick =>
        mdFile.target.data[1].sequence
            = LastTick(state.TickBuffer).sequence

---------------------------------------------------------------------------
(* C32: the command poll of a cycle with invalid market data               *)

\* the bridge study, called on the bar of new real-time data, leaves its
\* market data section in this step
LeavesDataSection ==
    variant = "bridge" /\ pc = "b_data_done" /\ pc' # pc /\ sc.Bar = "last"

\* C32: in the bridge study, a cycle in which trading is enabled and the
\* trade-check interval has elapsed polls the command artifact, whether or
\* not isValidData accepted the snapshot of the cycle.
C32_PollIndependentOfDataValidity ==
    [][(LeavesDataSection /\ BridgeTradeGate(state, now, input))
          => pc' = "ptc_open"]_vars

---------------------------------------------------------------------------
(* C33: the vwap over an empty or zero-volume window                       *)

\* the window the vwap of a new tick is computed over
VwapWindowTicks == GetRecentTicks(state.TickBuffer, VwapWindow)

\* C33: the vwap of a tick is the tick's own price whenever the window of
\* recent ticks is empty or the sizes of the ticks in it add up to zero.
C33_VwapDefaultsToPrice ==
    (loc.vwapDone /\ (VwapWindowTicks = <<>> \/ TotalVol(VwapWindowTicks) = 0))
        => loc.vwap = loc.price

\* a window that is not empty and holds ticks of size 0 only, of another
\* price than the new tick
C33_Witness ==
    /\ loc.vwapDone
    /\ Len(VwapWindowTicks) = VwapWindow
    /\ TotalVol(VwapWindowTicks) = 0
    /\ VwapWindowTicks[1].price # loc.price
    /\ loc.vwap = loc.price

---------------------------------------------------------------------------
(* C34, C35: the bid and ask of an emitted tick                            *)

\* the tick ExportTickData pushed in this step
NewTick == state'.TickBuffer.buffer[state.TickBuffer.writeIndex + 1]

\* C34: in v3_COMPLETE and v3_FIXED every tick ExportTickData emits has
\* ask >= bid, whatever bid and ask the host reports.
C34_AskNotBelowBid ==
    [][TickEmitted => NewTick.ask >= NewTick.bid]_vars

\* the half spread of the synthetic quote: 10% of the range of the bar,
\* and at least one tick size
SyntheticSpread(s) ==
    LET tenth == (s.High - s.Low) \div 10 IN
    IF tenth >= s.TickSize THEN tenth ELSE s.TickSize

\* C35: in v3_COMPLETE and v3_FIXED the bid and ask of an emitted tick are
\* the values the host reports exactly when both are > 0; otherwise
\* bid = price - s and ask = price + s, s being the larger of 10% of
\* (high - low) and one tick size.
C35_HostQuoteOrSyntheticQuote ==
    [][TickEmitted =>
         IF sc'.Bid > 0 /\ sc'.Ask > 0
         THEN NewTick.bid = sc'.Bid /\ NewTick.ask = sc'.Ask
         ELSE /\ NewTick.bid = sc'.Close - SyntheticSpread(sc')
              /\ NewTick.ask = sc'.Close + SyntheticSpread(sc')]_vars

\* a tick was emitted for a call with a bid and no ask, on a bar whose
\* tenth of range is above the tick size
C35_Witness ==
    /\ pc \in {"vc_data_done", "vf_data_done"} /\ loc.exp.wrote
    /\ sc.Bid > 0 /\ sc.Ask = 0
    /\ (sc.High - sc.Low) \div 10 > sc.TickSize
    /\ LastTick(state.TickBuffer).bid = sc.Close - (sc.High - sc.Low) \div 10
    /\ LastTick(state.TickBuffer).ask = sc.Close + (sc.High - sc.Low) \div 10

---------------------------------------------------------------------------
(* EstimateVolume of v3_COMPLETE on its own, applied to a price, a last    *)
(* price and a tick size drawn from a grid that has the last price absent, *)
(* equal to the price, and away from it by less than a tick, by a part of  *)
(* a tick, by whole ticks and by more than a hundred ticks.  sc holds the  *)
(* price and the tick size, state.LastPrice the last price, loc the        *)
(* answer.                                                                 *)

EstPrices     == {9990, 10000, 10004, 10010, 10013, 10050, 13000}
EstLastPrices == {0, 10000, 10025, 10050}
EstTickSizes  == {1, 25, 100}

EstLocInit == [volume |-> 0, done |-> FALSE]

InitEstimate ==
    /\ variant = "v3c"
    /\ input = NoInputs
    /\ touched = FALSE
    /\ pc = "load"
    /\ calls = 0
    /\ now = 0
    /\ \E l \in EstLastPrices :
         state = [StateInit(variant) EXCEPT !.LastPrice = l]
    /\ \E p \in EstPrices, t \in EstTickSizes :
         sc = [NoCall EXCEPT !.Close = p, !.TickSize = t, !.Volume = 0]
    /\ loc = EstLocInit
    /\ cmdFile = NoFile
    /\ respFile = {}
    /\ mdFile = [target |-> NoData, tmp |-> NoData]
    /\ hist = HistInit

\* ActualVolume = EstimateVolume(sc, CurrentPrice, g_LastPrice)
Est_Estimate ==
    /\ ~loc.done
    /\ sc.Volume = 0
    /\ loc' = [volume |-> EstimateVolume(sc, sc.Close, state.LastPrice),
               done |-> TRUE]
    /\ UNCHANGED <<variant, input, touched, pc, calls, now, state, sc,
                   cmdFile, respFile, mdFile, hist>>

NextEstimate == Est_Estimate

SpecEstimate == InitEstimate /\ [][NextEstimate]_vars

---------------------------------------------------------------------------
(* C36: the estimate for a changed price                                   *)

\* n / d rounded to the nearest integer, halves upwards (n >= 0, d > 0)
RoundedQuotient(n, d) == (2 * n + d) \div (2 * d)

\* x clamped to [lo, hi]
Clamped(x, lo, hi) == IF x < lo THEN lo ELSE IF x > hi THEN hi ELSE x

\* C36: in v3_COMPLETE, for host volume 0 and a price that differs from a
\* non-zero last price, EstimateVolume returns
\* round(|price - lastPrice| / tickSize * 10) clamped to [1, 1000], and so
\* never 0.
C36_EstimateIsRoundedAndClamped ==
    (loc.done /\ state.LastPrice # 0 /\ sc.Close # state.LastPrice) =>
        /\ loc.volume
             = Clamped(RoundedQuotient(Abs(sc.Close - state.LastPrice) * 10,
                                       sc.TickSize), 1, 1000)
        /\ loc.volume # 0

---------------------------------------------------------------------------
(* IsSymbolFiltered on its own: the function of v3_COMPLETE and the one of *)
(* v3_FIXED, applied to a chart symbol and a filter text drawn from sets   *)
(* that have the filter empty, of one term and of several, with an empty   *)
(* term inside, in front and behind, in lower case, and symbols that are,  *)
(* contain, or are part of a term, or have nothing in common with one.     *)
(* sc holds the symbol, input the filter, loc the answer.                  *)

FilterSymbols ==
    { <<"N", "Q">>, <<"n", "q">>, <<"M", "N", "Q">>, <<"T", "Y", "H">>,
      <<"E", "S">>, <<"C", "L">> }

FilterTexts ==
    { <<>>, <<"N", "Q">>, <<"N", "Q", ",", "E", "S">>, <<"R", "T", "Y">>,
      <<"e", "s">>, <<"N", "Q", ",">>, <<",", "N", "Q">>,
      <<"N", "Q", ",", ",", "E", "S">> }

FilterLocInit == [processed |-> FALSE, done |-> FALSE]

InitFilter ==
    /\ variant \in {"v3c", "v3f"}
    /\ \E f \in FilterTexts : input = [NoInputs EXCEPT !.symbolFilter = f]
    /\ touched = FALSE
    /\ pc = "load"
    /\ calls = 0
    /\ now = 0
    /\ state = StateInit(variant)
    /\ \E c \in FilterSymbols : sc = [NoCall EXCEPT !.SymbolChars = c]
    /\ loc = FilterLocInit
    /\ cmdFile = NoFile
    /\ respFile = {}
    /\ mdFile = [target |-> NoData, tmp |-> NoData]
    /\ hist = HistInit

\* the symbol test at the head of the study function: v3_COMPLETE goes on
\* when IsSymbolFiltered is true, v3_FIXED when it is false
Filter_Check ==
    /\ ~loc.done
    /\ loc' = [processed |->
                  IF variant = "v3c"
                  THEN V3cIsSymbolFiltered(sc.SymbolChars, input.symbolFilter)
                  ELSE ~V3fIsSymbolFiltered(sc.SymbolChars,
                                            input.symbolFilter),
               done |-> TRUE]
    /\ UNCHANGED <<variant, input, touched, pc, calls, now, state, sc,
                   cmdFile, respFile, mdFile, hist>>

NextFilter == Filter_Check

SpecFilter == InitFilter /\ [][NextFilter]_vars

---------------------------------------------------------------------------
(* C37: which symbols pass the symbol filter                               *)

\* the non-empty terms of a comma-separated text: its longest stretches
\* without a comma
NonEmptyTerms(f) ==
    { SubSeq(f, i, j) : <<i, j>> \in
        { p \in (1..Len(f)) \X (1..Len(f)) :
            /\ p[1] <= p[2]
            /\ \A k \in p[1]..p[2] : f[k] # ","
            /\ (p[1] = 1 \/ f[p[1] - 1] = ",")
            /\ (p[2] = Len(f) \/ f[p[2] + 1] = ",") } }

\* the symbol contains, without regard to case, one of the non-empty terms
\* of the filter, or the filter is empty
PassesFilter(symbol, filter) ==
    \/ filter = <<>>
    \/ \E term \in NonEmptyTerms(ToUpperChars(filter)) :
          ContainsSubstring(ToUpperChars(symbol), term)

\* C37: in v3_COMPLETE and v3_FIXED a chart symbol is processed if and only
\* if the filter is empty or the symbol contains, case-insensitively, at
\* least one of the non-empty comma-separated terms of the filter.
C37_ProcessedIffSymbolContainsTerm ==
    loc.done => (loc.processed
                   <=> PassesFilter(sc.SymbolChars, input.symbolFilter))

---------------------------------------------------------------------------
(* C38: the window of the vwap                                             *)

\* the ticks emitted before the i-th, the last VwapWindow of them at most
EarlierTicks(i) ==
    SubSeq(EmittedTicks, IF i > VwapWindow THEN i - VwapWindow ELSE 1, i - 1)

---------------------------------------------------------------------------
(* C39: the trades counter of the bridge study                             *)

\* this step is the return of a poll in which the host accepted an order
\* (executeTrade returned an order id > 0)
AcceptedOrderReturns ==
    variant = "bridge" /\ pc = "ptc_return" /\ pc' = "idle"
    /\ loc.ex.called /\ loc.ex.result > 0

\* C39: in the bridge study state.tradesExecuted counts the commands for
\* which the host accepted an order: it goes up by one with a poll in which
\* executeTrade returned a positive order id, and stays as it is in every
\* other step, a poll that finds no command, an empty command file or a
\* rejected command included.
C39_TradesExecutedCountsAcceptedOrders ==
    [][state'.tradesExecuted
          = state.tradesExecuted + (IF AcceptedOrderReturns THEN 1 ELSE 0)]_vars

---------------------------------------------------------------------------
(* The timing of the bridge study: calls 240, 500 and 1000 ms apart, with  *)
(* GetTickCount at the load of the study either 0 or 800 ms before the     *)
(* 32-bit counter wraps, so that the calls of a run lie before, across and *)
(* after the wrap.  No command file is written.  hist records the time     *)
(* that has really passed since the load, and at which of it the market    *)
(* data section and the command poll were entered.                         *)

TimeDts   == {60, 125, 250}
BootTimes == {0, DWORD_TICKS - 200}

TimeHostCalls == { HostCall(b, BaseQuote, <<TRUE, TRUE>>) : b \in Bars }

TimeHistInit ==
    [created |-> 0, hostCalls |-> 0, respWrites |-> 0,
     elapsed |-> 0, dataAt |-> <<>>, pollAt |-> <<>>]

InitBridgeTime ==
    /\ variant = "bridge"
    /\ input = NoInputs
    /\ touched = FALSE
    /\ pc = "load"
    /\ calls = 0
    /\ now \in BootTimes
    /\ state = StateInit(variant)
    /\ sc = NoCall
    /\ loc = LocInit
    /\ cmdFile = NoFile
    /\ respFile = {}
    /\ mdFile = [target |-> NoData, tmp |-> NoData]
    /\ hist = TimeHistInit

\* a call of the study function, dt after the one before
Timed_StudyCall(s, dt) ==
    /\ BridgeStudyCallSteps(s, dt, "direct")
    /\ hist' = [hist EXCEPT
                  !.elapsed = @ + dt,
                  !.dataAt = IF loc'.exp.due
                             THEN Append(@, hist.elapsed + dt) ELSE @]

\* the trade section of that call
Timed_TradeCheck ==
    /\ BridgeTradeCheckSteps
    /\ hist' = [hist EXCEPT
                  !.pollAt = IF pc' = "ptc_open"
                             THEN Append(@, hist.elapsed) ELSE @]

NextBridgeTime ==
    \/ SetDefaults
    \/ \E b \in BOOLEAN : UserSetTrading(b)
    \/ \E s \in TimeHostCalls, dt \in TimeDts : Timed_StudyCall(s, dt)
    \/ Timed_TradeCheck
    \/ PTC_Open
    \/ PTC_Return

SpecBridgeTime == InitBridgeTime /\ [][NextBridgeTime]_vars

---------------------------------------------------------------------------
(* C40: the time between two data writes and between two polls            *)

\* an interval of ms milliseconds in the time unit of the model
IntervalTicks(ms) == (ms + MsPerTick - 1) \div MsPerTick

\* the times of the sequence are apart by at least the interval
SeparatedBy(times, ms) ==
    \A i \in 2..Len(times) : times[i] - times[i - 1] >= IntervalTicks(ms)

\* C40: in the bridge study any two market data write attempts are at
\* least the configured update interval apart, and any two command polls
\* at least the configured trade-check interval, also when the 32-bit
\* millisecond counter wraps around between them.
C40_AttemptsAndPollsSeparated ==
    /\ SeparatedBy(hist.dataAt, input.updateInterval)
    /\ SeparatedBy(hist.pollAt, input.tradeCheckInterval)

\* the counter has wrapped since the load, and after the wrap the data
\* section and the poll were each entered a second time
C40_Witness ==
    /\ now < hist.elapsed
    /\ now < IntervalTicks(input.tradeCheckInterval)
    /\ Len(hist.dataAt) = 2 /\ state.lastUpdate = now
    /\ Len(hist.pollAt) = 2 /\ state.lastTradeCheck = now
    /\ hist.dataAt[2] - hist.dataAt[1] = IntervalTicks(input.updateInterval)
====
